---- MODULE Spec2Model ----
(***************************************************************************)
(* A model of the poise-android native audio pipeline:                     *)
(*   VoiceActivityDetector (vad.cpp), StreamingResampler (resampler.cpp),  *)
(*   PoiseProcessor (poise_processor.cpp), STFTProcessor (stft.cpp).       *)
(*                                                                         *)
(* Numbers.  Audio samples of the detector and of the processor are        *)
(* fixed-point integers in units of 1/1000 (1.0f is 1000), and float       *)
(* expressions are evaluated exactly on them; a division that leaves the   *)
(* grid truncates toward zero.  The resampler's doubles (ratio_, phase_,   *)
(* srcPos) are exact rationals: ratio_ is the pair outputSr / inputSr and  *)
(* phase_ a numerator over the denominator outputSr.                       *)
(*                                                                         *)
(* The STFT's floats are exact reals.  Its arithmetic stays in the ring    *)
(* generated by the integers, 1/2 and the cosines and sines of the         *)
(* multiples of 2*pi/1024, and it is carried out in the image of that ring *)
(* modulo the prime FieldPrime = 12289 = 12 * 1024 + 1: Zeta is a          *)
(* primitive 1024th root of unity there, Iota = Zeta^256 a square root of  *)
(* -1, cos(2*pi*m/1024) is (Zeta^m + Zeta^-m) / 2 and sin(2*pi*m/1024) is  *)
(* (Zeta^m - Zeta^-m) / (2 * Iota).  Sums, products, the division by n and *)
(* complex conjugation commute with the reduction, so an equation between  *)
(* the exact results of the code holds modulo FieldPrime too.  A complex   *)
(* number is a pair <<re, im>>.  Rounding is not modelled.                 *)
(***************************************************************************)
EXTENDS Integers, Sequences, FiniteSets, TLC

VARIABLES
  \* VoiceActivityDetector under test, and the observation of its last call
  vad,               \* the detector's fields
  vadOp,             \* "init" | "isSpeech" | "reset": the last operation
  vadSilent,         \* whether the last isSpeech call's frame was all zero
  vadRet,            \* the value the last isSpeech call returned
  callsSinceActive   \* isSpeech calls since the last above-threshold frame
                     \* (0 right after it); -1 when none since construction
                     \* or reset
VARIABLES
  \* StreamingResampler under test, and the observation of its calls
  rs,                \* the resampler's fields
  rsOp,              \* "init" | "process" | "reset": the last operation
  rsIn,              \* the input of the last process call
  rsOutSize,         \* the outputSize of the last process call
  rsOut,             \* the vector the last process call returned
  rsStream,          \* all input given since construction or reset
  rsProduced,        \* output samples returned since construction or reset
  rsRemoved,         \* samples erased from the accumulator's front since then
  rsCastUB           \* whether a process call since then converted an
                     \* out-of-range double to int (undefined behaviour)

VARIABLES
  \* PoiseProcessor under test, and the observation of its calls
  pp,                \* the processor's fields (vad_ is its detector)
  pc,                \* "idle", or "inference": processFrame has taken the
                     \* VAD decision and is about to call the callback
  ppIn,              \* inputFrame of the last processFrame call
  ppFrame,           \* its local `frame`: what the VAD was given
  ppSpeech,          \* what vad_.isSpeech(frame) returned
  ppCbFrame,         \* the frame the last callback invocation was given
  ppCbResult,        \* what that invocation returned
  ppShaped,          \* enhancedFrame after normalizeOutputShape
  ppOut,             \* what the last processFrame call returned
  ppCalls,           \* processFrame calls since the run began or reset
  ppSpeechCalls,     \* those of them the VAD classified as speech
  cbCalls,           \* callback invocations since the run began or reset
  ppResetInHold      \* the last call was a reset() made inside a hang hold

VARIABLES
  \* STFTProcessor::fft under test
  fftInput,          \* the array before the first call
  fftData,           \* the array now
  fftOps             \* the calls made on it: "forward", "inverse"
VARIABLES
  \* STFTProcessor under test, and the observation of its calls
  stft,              \* the processor's fields
  stOp,              \* "init" | "computeSTFT" | "reconstructAudio" | "reset"
  stChunk,           \* audioChunk of the last computeSTFT call
  stPrevChunk,       \* audioChunk of the computeSTFT call before it
  stReal,            \* realOut of the last computeSTFT call
  stImag,            \* imagOut of the last computeSTFT call
  stRealIn,          \* realIn, imagIn and audioOut of the last call, when
  stImagIn,          \* it was reconstructAudio
  stOut,
  stComputes,        \* computeSTFT calls since construction or reset,
                     \* counted up to 2
  stPiped,           \* since construction or reset the calls alternated,
                     \* each reconstructAudio given the result of the
                     \* computeSTFT before it
  twin,              \* a processor constructed at the last reset of stft and
                     \* given the same calls since
  twinOut,           \* what the twin's last call wrote out
  stAfterReset,      \* the last call was the first one after a reset()
  \* -- post-processing of one frame ---------------------------------------
  postIn,            \* the frame handed to post-processing
  postVia,           \* "none", "postprocessAudio" or "nativePostProcess"
  postLimited,       \* the frame after the soft-limiter step
  postOut,           \* the frame after clipping and DC removal
  \* -- the JNI bridge -----------------------------------------------------
  processors,        \* unordered_map<jlong, unique_ptr<PoiseProcessor>>
  inputResamplers,   \* unordered_map<jlong, unique_ptr<StreamingResampler>>
  outputResamplers,  \* unordered_map<jlong, unique_ptr<StreamingResampler>>
  nextHandle,        \* jlong nextHandle
  stftProcessors,    \* unordered_map<jlong, unique_ptr<STFTProcessor>>
  nextStftHandle,    \* jlong nextStftHandle
  brOp,              \* the last entry point called
  brHandle,          \* the handle it was called with
  brArg,             \* the array it was called with
  brNull,            \* it returned nullptr
  brRet,             \* the value or array it returned, as a sequence
  brCalls,           \* entry points called so far
  brShadow,          \* per live handle, a detector like the session's own,
                     \* given every frame nativeCheckVAD was called with
  \* -- threads calling the bridge -----------------------------------------
  th,                \* per thread: where it is in the entry point it called
  processorMutex,    \* std::mutex processorMutex: the owning thread, 0 if free
  stftMutex,         \* std::mutex stftMutex: the owning thread, 0 if free
  thCalls            \* entry points called so far

vadVars == <<vad, vadOp, vadSilent, vadRet, callsSinceActive>>

resVars ==
  <<rs, rsOp, rsIn, rsOutSize, rsOut, rsStream, rsProduced, rsRemoved, rsCastUB>>

procVars ==
  <<pp, pc, ppIn, ppFrame, ppSpeech, ppCbFrame, ppCbResult, ppShaped, ppOut,
    ppCalls, ppSpeechCalls, cbCalls, ppResetInHold>>

fftVars == <<fftInput, fftData, fftOps>>

stftVars ==
  <<stft, stOp, stChunk, stPrevChunk, stReal, stImag, stRealIn, stImagIn, stOut,
    stComputes, stPiped, twin, twinOut, stAfterReset>>

postVars == <<postIn, postVia, postLimited, postOut>>

registries ==
  <<processors, inputResamplers, outputResamplers, nextHandle,
    stftProcessors, nextStftHandle>>

bridgeObs == <<brOp, brHandle, brArg, brNull, brRet, brCalls, brShadow>>

bridgeVars == <<registries, bridgeObs>>

threadVars == <<th, processorMutex, stftMutex, thCalls>>

vars ==
  <<vadVars, resVars, procVars, fftVars, stftVars, postVars, bridgeVars,
    threadVars>>

(***************************************************************************)
(* Helpers                                                                 *)
(***************************************************************************)
Min(a, b) == IF a < b THEN a ELSE b

Max(a, b) == IF a > b THEN a ELSE b

Abs(x) == IF x < 0 THEN -x ELSE x

\* C++ integer / float-to-int conversion: division truncating toward zero.
TruncDiv(a, b) == IF a >= 0 THEN a \div b ELSE -((-a) \div b)

\* All sequences over S of length 0..n.
SeqsUpTo(S, n) == UNION {[1..k -> S] : k \in 0..n}

(***************************************************************************)
(* VoiceActivityDetector  (vad.h, vad.cpp)                                 *)
(***************************************************************************)
DEFAULT_FRAME_SIZE == 480

\* std::pow(10.0f, thresholdDb / 20.0f), in units of 1/1000, for the
\* thresholds the model configures.
thresholdLinear(thresholdDb) ==
  CASE thresholdDb = -60 -> 1
    [] thresholdDb = -40 -> 10
    [] thresholdDb = -20 -> 100
    [] thresholdDb = 0   -> 1000

\* static_cast<int>(hangTimeMs * sampleRate / 1000.0f / DEFAULT_FRAME_SIZE)
hangFrames(hangTimeMs, sampleRate) ==
  TruncDiv(hangTimeMs * sampleRate, 1000 * DEFAULT_FRAME_SIZE)

\* The constructor.
VoiceActivityDetector(thresholdDb, hangTimeMs, sampleRate) ==
  [thresholdDb_       |-> thresholdDb,
   thresholdLinear_   |-> thresholdLinear(thresholdDb),
   hangFrames_        |-> hangFrames(hangTimeMs, sampleRate),
   framesSinceActive_ |-> hangFrames(hangTimeMs, sampleRate) + 1,
   totalFrames_       |-> 0,
   activeFrames_      |-> 0,
   bypassedFrames_    |-> 0]

\* sumSquares of isSpeech: the loop over the samples lo..hi, the additions
\* grouped by halves (the same sum; the evaluation stays shallow at 480
\* samples).
RECURSIVE sumSquaresIn(_, _, _)
sumSquaresIn(audio, lo, hi) ==
  IF lo > hi THEN 0
  ELSE IF lo = hi THEN audio[lo] * audio[lo]
  ELSE LET mid == (lo + hi) \div 2 IN
       sumSquaresIn(audio, lo, mid) + sumSquaresIn(audio, mid + 1, hi)

sumSquares(audio) == sumSquaresIn(audio, 1, Len(audio))

\* rms > thresholdLinear_, with rms = sqrt(sumSquares / size): for a
\* non-empty frame the squares compare the same way; for an empty frame rms
\* is 0/0 = NaN and the comparison is false.
rmsAbove(audio, linear) ==
  /\ Len(audio) > 0
  /\ sumSquares(audio) > linear * linear * Len(audio)

\* Mutants of isSpeech (used by the checks of C1..C3).
isSpeechNoRearm(v, audio) ==
  LET t == [v EXCEPT !.totalFrames_ = @ + 1] IN
  IF rmsAbove(audio, v.thresholdLinear_)
  THEN [vad |-> [t EXCEPT !.activeFrames_ = @ + 1], ret |-> TRUE]
  ELSE LET u == [t EXCEPT !.framesSinceActive_ = @ + 1] IN
       IF u.framesSinceActive_ < u.hangFrames_
       THEN [vad |-> [u EXCEPT !.activeFrames_ = @ + 1], ret |-> TRUE]
       ELSE [vad |-> [u EXCEPT !.bypassedFrames_ = @ + 1], ret |-> FALSE]

isSpeechHoldOneMore(v, audio) ==
  LET t == [v EXCEPT !.totalFrames_ = @ + 1] IN
  IF rmsAbove(audio, v.thresholdLinear_)
  THEN [vad |-> [t EXCEPT !.framesSinceActive_ = 0, !.activeFrames_ = @ + 1],
        ret |-> TRUE]
  ELSE LET u == [t EXCEPT !.framesSinceActive_ = @ + 1] IN
       IF u.framesSinceActive_ <= u.hangFrames_
       THEN [vad |-> [u EXCEPT !.activeFrames_ = @ + 1], ret |-> TRUE]
       ELSE [vad |-> [u EXCEPT !.bypassedFrames_ = @ + 1], ret |-> FALSE]

isSpeechNoBypassCount(v, audio) ==
  LET t == [v EXCEPT !.totalFrames_ = @ + 1] IN
  IF rmsAbove(audio, v.thresholdLinear_)
  THEN [vad |-> [t EXCEPT !.framesSinceActive_ = 0, !.activeFrames_ = @ + 1],
        ret |-> TRUE]
  ELSE LET u == [t EXCEPT !.framesSinceActive_ = @ + 1] IN
       IF u.framesSinceActive_ < u.hangFrames_
       THEN [vad |-> [u EXCEPT !.activeFrames_ = @ + 1], ret |-> TRUE]
       ELSE [vad |-> u, ret |-> FALSE]

\* Mutant of isSpeech (used by the check of C22): a frame held by the hang
\* time is returned as speech without being counted.
isSpeechHeldUncounted(v, audio) ==
  LET t == [v EXCEPT !.totalFrames_ = @ + 1] IN
  IF rmsAbove(audio, v.thresholdLinear_)
  THEN [vad |-> [t EXCEPT !.framesSinceActive_ = 0, !.activeFrames_ = @ + 1],
        ret |-> TRUE]
  ELSE LET u == [t EXCEPT !.framesSinceActive_ = @ + 1] IN
       IF u.framesSinceActive_ < u.hangFrames_
       THEN [vad |-> u, ret |-> TRUE]
       ELSE [vad |-> [u EXCEPT !.bypassedFrames_ = @ + 1], ret |-> FALSE]

\* bool VoiceActivityDetector::isSpeech(audio): the detector after the call
\* and the value returned.
isSpeech(v, audio) ==
  LET t == [v EXCEPT !.totalFrames_ = @ + 1] IN
  IF rmsAbove(audio, v.thresholdLinear_)
  THEN [vad |-> [t EXCEPT !.framesSinceActive_ = 0, !.activeFrames_ = @ + 1],
        ret |-> TRUE]
  ELSE LET u == [t EXCEPT !.framesSinceActive_ = @ + 1] IN
       IF u.framesSinceActive_ < u.hangFrames_
       THEN [vad |-> [u EXCEPT !.activeFrames_ = @ + 1], ret |-> TRUE]
       ELSE [vad |-> [u EXCEPT !.bypassedFrames_ = @ + 1], ret |-> FALSE]

\* void VoiceActivityDetector::reset()
vadReset(v) ==
  [v EXCEPT !.framesSinceActive_ = v.hangFrames_ + 1,
            !.totalFrames_ = 0,
            !.activeFrames_ = 0,
            !.bypassedFrames_ = 0]

\* VADStats VoiceActivityDetector::getStats(); bypassRatio in 1/1000.
vadGetStats(v) ==
  [total       |-> v.totalFrames_,
   active      |-> v.activeFrames_,
   bypassed    |-> v.bypassedFrames_,
   bypassRatio |-> IF v.totalFrames_ > 0
                   THEN TruncDiv(v.bypassedFrames_ * 1000, v.totalFrames_)
                   ELSE 0]

(***************************************************************************)
(* StreamingResampler  (resampler.h, resampler.cpp)                        *)
(*                                                                         *)
(* Sample rates are small integers (a common unit of Hz divided out);     *)
(* ratio_ = outputSr / inputSr is kept as that pair and phase_ is the      *)
(* numerator of a fraction over outputSr, so srcPos = (i + phase_)/ratio_  *)
(* is ((i * outputSr + phase_) * inputSr) / outputSr^2 exactly.  Samples   *)
(* are integers; the model feeds multiples of outputSr^2, for which the    *)
(* interpolation is an exact integer.  The k-th sample fed since           *)
(* construction or reset is k^2 * outputSr^2: the signal is strictly       *)
(* increasing and never 0, so an output value determines the source        *)
(* position it was interpolated at; the calls vary in how the stream is    *)
(* cut into inputs and in the outputSize asked for.                        *)
(***************************************************************************)
\* The range of the 32-bit int of the conversion.
INT_MAX == 2147483647

INT_MIN == -INT_MAX - 1

\* The constructor: phase_(0.0), an empty accumulator_.
StreamingResampler(inputSr, outputSr) ==
  [inputSampleRate_  |-> inputSr,
   outputSampleRate_ |-> outputSr,
   phase_            |-> 0,
   accumulator_      |-> <<>>]

\* static_cast<int>((accumulator_.size() - 1) * ratio_).  size() is
\* unsigned: on an empty accumulator size() - 1 wraps to the largest size_t
\* and the product is outside the range of int, which makes the conversion
\* undefined; the result is then `cast`, a value the build produces.
availableOutputSamples(size, r, cast) ==
  IF size = 0 THEN cast
  ELSE ((size - 1) * r.outputSampleRate_) \div r.inputSampleRate_

\* The values an out-of-range conversion yields: INT_MIN (x86 cvttsd2si)
\* or INT_MAX (the saturating fcvtzs of the arm64 Android targets).
CastOutcomes == {INT_MIN, INT_MAX}

\* srcPos = (i + phase_) / ratio_ as a numerator over outputSr^2.
srcPosNum(r, i) == (i * r.outputSampleRate_ + r.phase_) * r.inputSampleRate_

srcPosDen(r) == r.outputSampleRate_ * r.outputSampleRate_

\* output[i] of the interpolation loop, for the 0-based i, over the
\* accumulator acc (0-based index k is acc[k + 1]).
outputSample(acc, r, i) ==
  LET srcIndex == srcPosNum(r, i) \div srcPosDen(r)
      frac     == srcPosNum(r, i) % srcPosDen(r)
  IN IF srcIndex + 1 < Len(acc)
     THEN TruncDiv(acc[srcIndex + 1] * (srcPosDen(r) - frac)
                     + acc[srcIndex + 2] * frac, srcPosDen(r))
     ELSE IF srcIndex < Len(acc) THEN acc[srcIndex + 1]
     ELSE 0

\* consumedInputSamples = outputSize / ratio_, over outputSr.
consumedNum(r, outputSize) == outputSize * r.inputSampleRate_

\* samplesToRemove = static_cast<int>(consumedInputSamples)
samplesToRemove(r, outputSize) ==
  consumedNum(r, outputSize) \div r.outputSampleRate_

\* Mutant of nextPhase (used by the check of C18): the sum without fmod.
nextPhaseNoFmod(r, outputSize) ==
  r.phase_ + (consumedNum(r, outputSize) % r.outputSampleRate_)

\* fmod(phase_ + consumedInputSamples - samplesToRemove, 1.0)
nextPhase(r, outputSize) ==
  (r.phase_ + (consumedNum(r, outputSize) % r.outputSampleRate_))
    % r.outputSampleRate_

\* The erase at the end of process.
eraseConsumed(acc, n) ==
  IF n > 0 /\ n <= Len(acc) THEN SubSeq(acc, n + 1, Len(acc)) ELSE acc

\* Mutant of process (used by the check of C4): the input is buffered
\* before the equal-rates test.
processBuffersFirst(r, input, outputSize, cast) ==
  [rs  |-> [r EXCEPT !.accumulator_ = r.accumulator_ \o input],
   out |-> IF r.inputSampleRate_ = r.outputSampleRate_ THEN input ELSE <<>>]

\* std::vector<float> StreamingResampler::process(input, outputSize): the
\* resampler after the call and the vector returned.
process(r, input, outputSize, cast) ==
  IF r.inputSampleRate_ = r.outputSampleRate_
  THEN [rs |-> r, out |-> input]
  ELSE LET acc == r.accumulator_ \o input IN
       IF availableOutputSamples(Len(acc), r, cast) < outputSize
       THEN [rs |-> [r EXCEPT !.accumulator_ = acc], out |-> <<>>]
       ELSE [rs  |-> [r EXCEPT
                        !.phase_ = nextPhase(r, outputSize),
                        !.accumulator_ =
                          eraseConsumed(acc, samplesToRemove(r, outputSize))],
             out |-> [i \in 1..outputSize |-> outputSample(acc, r, i - 1)]]

\* void StreamingResampler::reset()
resamplerReset(r) == [r EXCEPT !.accumulator_ = <<>>, !.phase_ = 0]

(***************************************************************************)
(* PoiseProcessor  (poise_processor.h, poise_processor.cpp)                *)
(***************************************************************************)
ONNX_STATE_SIZE == 45304

DEFAULT_SAMPLE_RATE == 48000

\* 0.98f, -1.0f and 1.0f in units of 1/1000.
SOFT_LIMITER_THRESHOLD == 980

AUDIO_CLIP_MIN == -1000

AUDIO_CLIP_MAX == 1000

\* The constructor: states_ of ONNX_STATE_SIZE zeros, a detector with a
\* 300 ms hang time.
PoiseProcessor(vadThresholdDb, attenLimDb) ==
  [vadThresholdDb_        |-> vadThresholdDb,
   attenLimDb_            |-> attenLimDb,
   frameSize_             |-> DEFAULT_FRAME_SIZE,
   sampleRate_            |-> DEFAULT_SAMPLE_RATE,
   states_                |-> [i \in 1..ONNX_STATE_SIZE |-> 0],
   frameCount_            |-> 0,
   totalProcessingTimeMs_ |-> 0,
   vad_ |-> VoiceActivityDetector(vadThresholdDb, 300, DEFAULT_SAMPLE_RATE)]

\* normalizeFrameSize: frameSize_ zeros with the first
\* min(size, frameSize_) samples of audio copied over them.
normalizeFrameSize(p, audio) ==
  [i \in 1..p.frameSize_ |->
     IF i <= Min(Len(audio), p.frameSize_) THEN audio[i] ELSE 0]

\* Mutant of normalizeOutputShape (used by the check of C11): an empty
\* output is padded like any other, without the fallback.
normalizeOutputShapeNoFallback(p, output, fallback) ==
  [i \in 1..p.frameSize_ |->
     IF i <= Min(Len(output), p.frameSize_) THEN output[i] ELSE 0]

\* normalizeOutputShape: the fallback for an empty output, else as above.
normalizeOutputShape(p, output, fallback) ==
  IF output = <<>> THEN fallback
  ELSE [i \in 1..p.frameSize_ |->
          IF i <= Min(Len(output), p.frameSize_) THEN output[i] ELSE 0]

\* The loops of postprocessAudio over the samples lo..hi, grouped by halves
\* like sumSquaresIn: maxVal = max(maxVal, |sample|) from 0, and
\* mean += sample from 0.
RECURSIVE maxAbsIn(_, _, _)
maxAbsIn(audio, lo, hi) ==
  IF lo > hi THEN 0
  ELSE IF lo = hi THEN Abs(audio[lo])
  ELSE LET mid == (lo + hi) \div 2 IN
       Max(maxAbsIn(audio, lo, mid), maxAbsIn(audio, mid + 1, hi))

RECURSIVE sumIn(_, _, _)
sumIn(audio, lo, hi) ==
  IF lo > hi THEN 0
  ELSE IF lo = hi THEN audio[lo]
  ELSE LET mid == (lo + hi) \div 2 IN
       sumIn(audio, lo, mid) + sumIn(audio, mid + 1, hi)

\* Mutant of softLimit (used by the check of C16): the frame is scaled to a
\* peak of 1.0.
softLimitToFullScale(audio) ==
  LET maxVal == maxAbsIn(audio, 1, Len(audio)) IN
  IF maxVal > SOFT_LIMITER_THRESHOLD /\ maxVal > 0
  THEN [i \in 1..Len(audio) |-> TruncDiv(audio[i] * AUDIO_CLIP_MAX, maxVal)]
  ELSE audio

\* sample *= SOFT_LIMITER_THRESHOLD / maxVal when maxVal exceeds the
\* threshold.
softLimit(audio) ==
  LET maxVal == maxAbsIn(audio, 1, Len(audio)) IN
  IF maxVal > SOFT_LIMITER_THRESHOLD /\ maxVal > 0
  THEN [i \in 1..Len(audio) |->
          TruncDiv(audio[i] * SOFT_LIMITER_THRESHOLD, maxVal)]
  ELSE audio

\* std::clamp(sample, AUDIO_CLIP_MIN, AUDIO_CLIP_MAX)
clip(audio) ==
  [i \in 1..Len(audio) |-> Max(AUDIO_CLIP_MIN, Min(AUDIO_CLIP_MAX, audio[i]))]

\* mean /= size; sample -= mean
removeDC(audio) ==
  LET mean == TruncDiv(sumIn(audio, 1, Len(audio)), Len(audio)) IN
  [i \in 1..Len(audio) |-> audio[i] - mean]

\* void PoiseProcessor::postprocessAudio(audio): the vector after the call.
postprocessAudio(audio) ==
  IF audio = <<>> THEN audio ELSE removeDC(clip(softLimit(audio)))

\* Mutant of processFrameGate (used by the check of C10): the bypassed
\* frame goes through post-processing like an enhanced one.
processFrameGatePostprocesses(p, inputFrame) ==
  LET frame == normalizeFrameSize(p, inputFrame)
      v     == isSpeech(p.vad_, frame)
  IN [pp     |-> [p EXCEPT !.vad_ = v.vad],
      frame  |-> frame,
      speech |-> v.ret,
      out    |-> postprocessAudio(frame)]

\* Mutant of processFrameGate (used by the check of C9): the input is
\* handed on as given, without normalizeFrameSize.
processFrameGateNoNormalize(p, inputFrame) ==
  LET v == isSpeech(p.vad_, inputFrame)
  IN [pp     |-> [p EXCEPT !.vad_ = v.vad],
      frame  |-> inputFrame,
      speech |-> v.ret,
      out    |-> inputFrame]

\* processFrame up to the VAD gate: normalizeFrameSize, vad_.isSpeech and,
\* for silence, the return of the frame as it is.  `out` is the value
\* returned when speech is FALSE.
processFrameGate(p, inputFrame) ==
  LET frame == normalizeFrameSize(p, inputFrame)
      v     == isSpeech(p.vad_, frame)
  IN [pp     |-> [p EXCEPT !.vad_ = v.vad],
      frame  |-> frame,
      speech |-> v.ret,
      out    |-> frame]

\* Mutant of recordInference (used by the check of C23): the frame is timed
\* but not counted.
recordInferenceUncounted(p, states, ms) ==
  [p EXCEPT !.states_ = states,
            !.totalProcessingTimeMs_ = @ + ms]

\* processFrame around the callback: the callback has left `states` in
\* states_ (it is handed the buffer by reference) and has taken `ms`
\* milliseconds; frameCount_++ and totalProcessingTimeMs_ += ms.
recordInference(p, states, ms) ==
  [p EXCEPT !.states_ = states,
            !.frameCount_ = @ + 1,
            !.totalProcessingTimeMs_ = @ + ms]

\* processFrame from the callback's return on: normalizeOutputShape of the
\* returned `enhanced` with `frame` as the fallback, then postprocessAudio.
finishFrame(p, frame, enhanced) ==
  LET shaped == normalizeOutputShape(p, enhanced, frame)
  IN [shaped |-> shaped, out |-> postprocessAudio(shaped)]

\* Mutant of processorReset (used by the check of C12): the detector is
\* left as it is.
processorResetKeepsVad(p) ==
  [p EXCEPT !.states_ = [i \in DOMAIN p.states_ |-> 0],
            !.frameCount_ = 0,
            !.totalProcessingTimeMs_ = 0]

\* void PoiseProcessor::reset()
processorReset(p) ==
  [p EXCEPT !.states_ = [i \in DOMAIN p.states_ |-> 0],
            !.frameCount_ = 0,
            !.totalProcessingTimeMs_ = 0,
            !.vad_ = vadReset(p.vad_)]

\* getAverageProcessingTimeMs(), in 1/1000 ms.
getAverageProcessingTimeMs(p) ==
  IF p.frameCount_ > 0
  THEN TruncDiv(p.totalProcessingTimeMs_ * 1000, p.frameCount_)
  ELSE 0

\* ProcessingStats PoiseProcessor::getStats(); avgTimeMs, rtf and
\* vadBypassRatio in 1/1000.  frameDurationMs = frameSize_ / sampleRate_ *
\* 1000, so rtf = avgTimeMs * sampleRate_ / (frameSize_ * 1000).
getStats(p) ==
  LET avgTimeMs == getAverageProcessingTimeMs(p)
      vadStats  == vadGetStats(p.vad_)
  IN [frameCount     |-> p.frameCount_,
      avgTimeMs      |-> avgTimeMs,
      rtf            |-> IF p.frameSize_ > 0
                         THEN TruncDiv(avgTimeMs * p.sampleRate_,
                                       p.frameSize_ * 1000)
                         ELSE 0,
      vadTotal       |-> vadStats.total,
      vadActive      |-> vadStats.active,
      vadBypassed    |-> vadStats.bypassed,
      vadBypassRatio |-> vadStats.bypassRatio]

(***************************************************************************)
(* STFTProcessor  (stft.h, stft.cpp)                                       *)
(***************************************************************************)
FFT_SIZE == 512

HOP_SIZE == 256

NUM_BINS == 257

\* The modulus of the real arithmetic, and a primitive 1024th root of unity.
FieldPrime == 12289

Zeta == 10302

\* A C array: the values of f at 1..n, held as a sequence (element i of the
\* array is element i + 1 of the sequence).
array(f) == <<>> \o f

RECURSIVE PowMod(_, _)
PowMod(b, e) ==
  IF e = 0 THEN 1
  ELSE LET h == PowMod(b, e \div 2) IN
       IF e % 2 = 0 THEN (h * h) % FieldPrime
       ELSE (((h * h) % FieldPrime) * b) % FieldPrime

\* 1 / a
Inverse(a) == PowMod(a % FieldPrime, FieldPrime - 2)

Iota == PowMod(Zeta, 256)

\* cos and sin of 2 * pi * m / 1024, for every integer m.
ZetaPowers == array([k \in 1..1024 |-> PowMod(Zeta, k - 1)])

CosTable ==
  array([k \in 1..1024 |->
    ((ZetaPowers[k] + ZetaPowers[((1025 - k) % 1024) + 1]) * Inverse(2))
      % FieldPrime])

SinTable ==
  array([k \in 1..1024 |->
    ((ZetaPowers[k] - ZetaPowers[((1025 - k) % 1024) + 1]) * Inverse(2 * Iota))
      % FieldPrime])

Cos1024(m) == CosTable[(m % 1024) + 1]

Sin1024(m) == SinTable[(m % 1024) + 1]

\* std::complex<float>: +, -, *, conj, and the division by a real.
cadd(a, b) == <<(a[1] + b[1]) % FieldPrime, (a[2] + b[2]) % FieldPrime>>

csub(a, b) == <<(a[1] - b[1]) % FieldPrime, (a[2] - b[2]) % FieldPrime>>

cmul(a, b) ==
  <<(a[1] * b[1] - a[2] * b[2]) % FieldPrime,
    (a[1] * b[2] + a[2] * b[1]) % FieldPrime>>

conj(a) == <<a[1], (-a[2]) % FieldPrime>>

cdiv(a, n) ==
  LET r == Inverse(n) IN <<(a[1] * r) % FieldPrime, (a[2] * r) % FieldPrime>>

\* w after k executions of w *= wn from w = 1: wn^k, by squaring.
RECURSIVE cpow(_, _)
cpow(wn, k) ==
  IF k = 0 THEN <<1, 0>>
  ELSE LET h == cpow(wn, k \div 2) IN
       IF k % 2 = 0 THEN cmul(h, h) ELSE cmul(cmul(h, h), wn)

\* initWindow: hann = 0.5 * (1 - cos(2 * pi * i / FFT_SIZE)), the square of
\* sin(pi * i / FFT_SIZE), which is not negative for 0 <= i < FFT_SIZE:
\* window_[i] = sqrt(hann) = sin(pi * i / FFT_SIZE).
hann(i) == (Inverse(2) * (1 - Cos1024(i * (1024 \div FFT_SIZE)))) % FieldPrime

initWindow == array([j \in 1..FFT_SIZE |-> Sin1024((j - 1) * (512 \div FFT_SIZE))])

\* A float array of n zeros (memset), and of n complex zeros.
zeros(n) == array([j \in 1..n |-> 0])

czeros(n) == array([j \in 1..n |-> <<0, 0>>])

\* Mutant of stftReset (used by the check of C14): the overlap-add
\* accumulator is left as it is.
stftResetInputOnly(st) ==
  [st EXCEPT !.stftBuffer_ = zeros(FFT_SIZE)]

\* reset(): both sliding buffers zeroed.
stftReset(st) ==
  [st EXCEPT !.stftBuffer_ = zeros(FFT_SIZE), !.overlapBuffer_ = zeros(FFT_SIZE)]

\* The constructor: initWindow(), reset(); fftBuffer_ is default-constructed
\* complex zeros.
STFTProcessor ==
  stftReset([window_        |-> initWindow,
             stftBuffer_    |-> zeros(FFT_SIZE),
             overlapBuffer_ |-> zeros(FFT_SIZE),
             fftBuffer_     |-> czeros(FFT_SIZE)])

\* bitReverse: bits is the least number with (1 << bits) >= n; j is i with
\* its low `bits` bits in reverse order.
RECURSIVE bitsOf(_, _)
bitsOf(n, bits) == IF 2 ^ bits < n THEN bitsOf(n, bits + 1) ELSE bits

RECURSIVE reversed(_, _, _, _)
reversed(i, k, bits, j) ==
  IF k >= bits THEN j
  ELSE reversed(i, k + 1, bits, 2 * j + ((i \div (2 ^ k)) % 2))

\* j for every i, for n = FFT_SIZE (the n of every call in stft.cpp).
reversal ==
  array([jj \in 1..FFT_SIZE |-> reversed(jj - 1, 0, bitsOf(FFT_SIZE, 0), 0)])

\* The swaps exchange data[i] and data[j] once for every pair i < j.
bitReverse(data, n) ==
  LET bits == bitsOf(n, 0) IN
  array([jj \in 1..n |->
    data[(IF n = FFT_SIZE THEN reversal[jj]
          ELSE reversed(jj - 1, 0, bits, 0)) + 1]])

\* wn of one pass: cos(angle) + i sin(angle), angle = (+/-) 2 * pi / size.
wn(size, inverse) ==
  LET m == 1024 \div size IN
  <<Cos1024(m), IF inverse THEN Sin1024(m) ELSE Sin1024(-m)>>

\* The values w takes in one block of a pass: 1, wn, wn^2, ...
twiddles(size, inverse) ==
  array([kk \in 1..(size \div 2) |-> cpow(wn(size, inverse), kk - 1)])

\* The same, for the passes of n = FFT_SIZE.
passTwiddles ==
  [inverse \in BOOLEAN |->
    [size \in {2 ^ b : b \in 1..bitsOf(FFT_SIZE, 0)} |->
      twiddles(size, inverse)]]

\* One pass of the Cooley-Tukey loop: the butterflies of every block of
\* `size` elements.
butterflies(data, n, size, inverse) ==
  LET half == size \div 2
      ws   == IF size \in DOMAIN passTwiddles[inverse]
              THEN passTwiddles[inverse][size]
              ELSE twiddles(size, inverse)
  IN array([jj \in 1..n |->
       LET k == (jj - 1) % size IN
       IF k < half
       THEN cadd(data[jj], cmul(ws[k + 1], data[jj + half]))
       ELSE csub(data[jj - half], cmul(ws[k - half + 1], data[jj]))])

RECURSIVE passes(_, _, _, _)
passes(data, n, size, inverse) ==
  IF size > n THEN data
  ELSE passes(butterflies(data, n, size, inverse), n, size * 2, inverse)

\* Mutant of fft (used by the check of C17): the inverse is left unscaled.
fftUnscaled(data, n, inverse) ==
  passes(bitReverse(data, n), n, 2, inverse)

\* void STFTProcessor::fft(data, n, inverse): data after the call.
fft(data, n, inverse) ==
  LET out == passes(bitReverse(data, n), n, 2, inverse) IN
  IF inverse THEN array([jj \in 1..n |-> cdiv(out[jj], n)]) ELSE out

\* Mutant of computeSTFT (used by the check of C19): the new chunk
\* overwrites the tail of the window without the shift.
computeSTFTNoShift(st, audioChunk) ==
  LET buffer == array([j \in 1..FFT_SIZE |->
                  IF j <= FFT_SIZE - HOP_SIZE
                  THEN st.stftBuffer_[j]
                  ELSE audioChunk[j - (FFT_SIZE - HOP_SIZE)]])
      windowed == array([j \in 1..FFT_SIZE |->
                    <<(buffer[j] * st.window_[j]) % FieldPrime, 0>>])
      spectrum == fft(windowed, FFT_SIZE, FALSE)
  IN [st      |-> [st EXCEPT !.stftBuffer_ = buffer, !.fftBuffer_ = spectrum],
      realOut |-> array([j \in 1..NUM_BINS |-> spectrum[j][1]]),
      imagOut |-> array([j \in 1..NUM_BINS |-> spectrum[j][2]])]

\* computeSTFT(audioChunk, realOut, imagOut): the shift of the input
\* window, the windowed transform, and the NUM_BINS bins written out.
computeSTFT(st, audioChunk) ==
  LET buffer == array([j \in 1..FFT_SIZE |->
                  IF j <= FFT_SIZE - HOP_SIZE
                  THEN st.stftBuffer_[j + HOP_SIZE]
                  ELSE audioChunk[j - (FFT_SIZE - HOP_SIZE)]])
      windowed == array([j \in 1..FFT_SIZE |->
                    <<(buffer[j] * st.window_[j]) % FieldPrime, 0>>])
      spectrum == fft(windowed, FFT_SIZE, FALSE)
  IN [st      |-> [st EXCEPT !.stftBuffer_ = buffer, !.fftBuffer_ = spectrum],
      realOut |-> array([j \in 1..NUM_BINS |-> spectrum[j][1]]),
      imagOut |-> array([j \in 1..NUM_BINS |-> spectrum[j][2]])]

\* The first two loops of reconstructAudio: bins 0..NUM_BINS-1 from the
\* arguments, fftBuffer_[FFT_SIZE - i] = conj(fftBuffer_[i]) for
\* 1 <= i < NUM_BINS - 1; an element neither loop writes keeps its value.
hermitian(st, realIn, imagIn) ==
  array([j \in 1..FFT_SIZE |->
    IF j <= NUM_BINS THEN <<realIn[j], imagIn[j]>>
    ELSE LET i == FFT_SIZE - (j - 1) IN
         IF 1 <= i /\ i < NUM_BINS - 1
         THEN conj(<<realIn[i + 1], imagIn[i + 1]>>)
         ELSE st.fftBuffer_[j]])

\* Mutant of overlapAdd (used by the check of C13): the inverse transform
\* is added without the synthesis window.
overlapAddUnwindowed(st, frame) ==
  array([j \in 1..FFT_SIZE |->
    (st.overlapBuffer_[j] + frame[j][1]) % FieldPrime])

\* overlapBuffer_[i] += fftBuffer_[i].real() * window_[i]
overlapAdd(st, frame) ==
  array([j \in 1..FFT_SIZE |->
    (st.overlapBuffer_[j] + frame[j][1] * st.window_[j]) % FieldPrime])

\* Mutant of shiftOverlap (used by the check of C20): the vacated tail is
\* not zeroed.
shiftOverlapKeepsTail(sums) ==
  array([j \in 1..FFT_SIZE |->
    IF j <= FFT_SIZE - HOP_SIZE THEN sums[j + HOP_SIZE] ELSE sums[j]])

\* The memmove and memset of reconstructAudio.
shiftOverlap(sums) ==
  array([j \in 1..FFT_SIZE |->
    IF j <= FFT_SIZE - HOP_SIZE THEN sums[j + HOP_SIZE] ELSE 0])

\* reconstructAudio(realIn, imagIn, audioOut)
reconstructAudio(st, realIn, imagIn) ==
  LET frame == fft(hermitian(st, realIn, imagIn), FFT_SIZE, TRUE)
      sums  == overlapAdd(st, frame)
  IN [st       |-> [st EXCEPT !.overlapBuffer_ = shiftOverlap(sums),
                              !.fftBuffer_ = frame],
      audioOut |-> SubSeq(sums, 1, HOP_SIZE)]

(***************************************************************************)
(* The JNI bridge  (jni_bridge.cpp)                                        *)
(***************************************************************************)
\* nativePostProcess, "Apply soft limiter": the array after the step.
bridgeSoftLimit(audio) ==
  LET maxVal == maxAbsIn(audio, 1, Len(audio)) IN
  IF maxVal > 980 /\ maxVal > 0
  THEN [i \in 1..Len(audio) |-> TruncDiv(audio[i] * 980, maxVal)]
  ELSE audio

\* nativePostProcess, "Clip and remove DC": clamp to [-1, 1] and sum in one
\* loop, subtract the mean in a second one.  On an empty array neither loop
\* runs.
bridgeClipRemoveDC(audio) ==
  IF audio = <<>> THEN audio
  ELSE LET clamped == [i \in 1..Len(audio) |-> Max(-1000, Min(1000, audio[i]))]
           mean    == TruncDiv(sumIn(clamped, 1, Len(audio)), Len(audio))
       IN [i \in 1..Len(audio) |-> clamped[i] - mean]

\* registry[handle] = value: operator[] of the map inserts the key or
\* replaces what it held.
assign(registry, handle, value) ==
  [k \in DOMAIN registry \cup {handle} |->
     IF k = handle THEN value ELSE registry[k]]

\* registry.erase(handle)
erase(registry, handle) ==
  [k \in DOMAIN registry \ {handle} |-> registry[k]]

\* nativeProcessPreInference, "Normalize frame size to 480 samples".
resizeTo480(input) ==
  [i \in 1..480 |-> IF i <= Len(input) THEN input[i] ELSE 0]

\* nativeCheckVAD on a live session: energyDb > vadThreshold, where
\* energyDb is 20 * log10(rms) when rms > 1e-10 and -100 otherwise.  For the
\* thresholds of the model (all above -100 dB) that is rms above the
\* threshold taken to linear scale; an empty array gives rms = NaN and
\* energyDb = -100.
bridgeCheckVAD(p, audio) ==
  rmsAbove(audio, thresholdLinear(p.vadThresholdDb_))

\* nativePostProcess: static_cast<int>(480 * getOutputSampleRate() /
\* getInputSampleRate()), in int arithmetic.
bridgeOutputSize(r) ==
  (480 * r.outputSampleRate_) \div r.inputSampleRate_

(***************************************************************************)
(* One component is under test at a time; the others stay as constructed. *)
(***************************************************************************)
VadIdle ==
  /\ vad = VoiceActivityDetector(-40, 300, 48000)
  /\ vadOp = "init"
  /\ vadSilent = FALSE
  /\ vadRet = FALSE
  /\ callsSinceActive = -1

\* No transform running, no STFT processor constructed.
FftIdle ==
  /\ fftInput = <<>>
  /\ fftData = <<>>
  /\ fftOps = <<>>

StftIdle ==
  /\ stft = "none"
  /\ stOp = "init"
  /\ stChunk = <<>>
  /\ stPrevChunk = <<>>
  /\ stReal = <<>>
  /\ stImag = <<>>
  /\ stRealIn = <<>>
  /\ stImagIn = <<>>
  /\ stOut = <<>>
  /\ stComputes = 0
  /\ stPiped = TRUE
  /\ twin = "none"
  /\ twinOut = <<>>
  /\ stAfterReset = FALSE

\* No processor constructed.
ProcIdle ==
  /\ pp = "none"
  /\ pc = "idle"
  /\ ppIn = <<>>
  /\ ppFrame = <<>>
  /\ ppSpeech = FALSE
  /\ ppCbFrame = <<>>
  /\ ppCbResult = <<>>
  /\ ppShaped = <<>>
  /\ ppOut = <<>>
  /\ ppCalls = 0
  /\ ppSpeechCalls = 0
  /\ cbCalls = 0
  /\ ppResetInHold = FALSE

ThreadsIdle ==
  /\ th = <<>>
  /\ processorMutex = 0
  /\ stftMutex = 0
  /\ thCalls = 0

PostIdle ==
  /\ postIn = <<>>
  /\ postVia = "none"
  /\ postLimited = <<>>
  /\ postOut = <<>>

BridgeIdle ==
  /\ processors = <<>>
  /\ inputResamplers = <<>>
  /\ outputResamplers = <<>>
  /\ nextHandle = 1
  /\ stftProcessors = <<>>
  /\ nextStftHandle = 1
  /\ brOp = "none"
  /\ brHandle = 0
  /\ brArg = <<>>
  /\ brNull = FALSE
  /\ brRet = <<>>
  /\ brCalls = 0
  /\ brShadow = <<>>

ResIdle ==
  /\ rs = StreamingResampler(1, 1)
  /\ rsOp = "init"
  /\ rsIn = <<>>
  /\ rsOutSize = 0
  /\ rsOut = <<>>
  /\ rsStream = <<>>
  /\ rsProduced = 0
  /\ rsRemoved = 0
  /\ rsCastUB = FALSE

(***************************************************************************)
(* The detector driven by arbitrary isSpeech and reset calls.              *)
(***************************************************************************)
\* Bounds of the detector's runs.
MaxVadCalls == 33

MaxVadFrameLen == 2

\* Configurations <<thresholdDb, hangTimeMs, sampleRate>>: the default
\* (30 hang frames), and hang times of 0, 1 and 2 frames.
VadConfigs ==
  {<<-40, 300, 48000>>, <<-40, 0, 48000>>, <<-40, 10, 48000>>,
   <<-60, 20, 48000>>}

\* Sample values in 1/1000: silence, 0.005 (-46 dB) and 0.02 (-34 dB).
VadSamples == {0, 5, 20}

VadFrames == SeqsUpTo(VadSamples, MaxVadFrameLen)

VadInit ==
  /\ \E c \in VadConfigs : vad = VoiceActivityDetector(c[1], c[2], c[3])
  /\ vadOp = "init"
  /\ vadSilent = FALSE
  /\ vadRet = FALSE
  /\ callsSinceActive = -1
  /\ ResIdle
  /\ ProcIdle
  /\ FftIdle
  /\ StftIdle
  /\ PostIdle
  /\ BridgeIdle
  /\ ThreadsIdle

IsSpeechCall(audio) ==
  /\ vad.totalFrames_ < MaxVadCalls
  /\ LET r == isSpeech(vad, audio) IN
       /\ vad' = r.vad
       /\ vadRet' = r.ret
  /\ vadOp' = "isSpeech"
  /\ vadSilent' = (\A i \in 1..Len(audio) : audio[i] = 0)
  /\ callsSinceActive' =
       IF rmsAbove(audio, thresholdLinear(vad.thresholdDb_)) THEN 0
       ELSE IF callsSinceActive < 0 THEN -1
       ELSE callsSinceActive + 1
  /\ UNCHANGED <<resVars, procVars, fftVars, stftVars, postVars, bridgeVars, threadVars>>

VadResetCall ==
  /\ vad' = vadReset(vad)
  /\ vadOp' = "reset"
  /\ callsSinceActive' = -1
  /\ UNCHANGED <<vadSilent, vadRet>>
  /\ UNCHANGED <<resVars, procVars, fftVars, stftVars, postVars, bridgeVars, threadVars>>

VadNext ==
  \/ \E audio \in VadFrames : IsSpeechCall(audio)
  \/ VadResetCall

SpecVAD == VadInit /\ [][VadNext]_vars

(***************************************************************************)
(* The resampler driven by arbitrary process and reset calls.              *)
(***************************************************************************)
\* Bounds of the resampler's runs: the largest rate, the longest input of
\* one call, the largest outputSize, and caps on the input and output of a
\* run between two resets.
MaxRate == 3

MaxResInput == 4

MaxOutputSize == 3

MaxStream == 8

MaxProduced == 6

ResRates == 1..MaxRate

\* The k-th sample of the stream (k = 1, 2, ...).
streamSample(r, k) == k * k * srcPosDen(r)

\* The input of n samples that continues a stream of `fed` samples.
nextInput(r, fed, n) == [i \in 1..n |-> streamSample(r, fed + i)]

ResInit ==
  /\ \E inputSr \in ResRates, outputSr \in ResRates :
       rs = StreamingResampler(inputSr, outputSr)
  /\ rsOp = "init"
  /\ rsIn = <<>>
  /\ rsOutSize = 0
  /\ rsOut = <<>>
  /\ rsStream = <<>>
  /\ rsProduced = 0
  /\ rsRemoved = 0
  /\ rsCastUB = FALSE
  /\ VadIdle
  /\ ProcIdle
  /\ FftIdle
  /\ StftIdle
  /\ PostIdle
  /\ BridgeIdle
  /\ ThreadsIdle

ProcessCall(input, outputSize, cast) ==
  /\ Len(rsStream) + Len(input) <= MaxStream
  /\ rsProduced + Max(outputSize, Len(input)) <= MaxProduced
  /\ LET p == process(rs, input, outputSize, cast) IN
       /\ rs' = p.rs
       /\ rsOut' = p.out
       /\ rsProduced' = rsProduced + Len(p.out)
       /\ rsRemoved' = rsRemoved
            + (Len(rs.accumulator_) + Len(input) - Len(p.rs.accumulator_))
  /\ rsOp' = "process"
  /\ rsIn' = input
  /\ rsOutSize' = outputSize
  /\ rsStream' = rsStream \o input
  /\ rsCastUB' = (rsCastUB \/ (rs.inputSampleRate_ # rs.outputSampleRate_
                                /\ Len(rs.accumulator_ \o input) = 0))
  /\ UNCHANGED <<vadVars, procVars, fftVars, stftVars, postVars, bridgeVars, threadVars>>

ResResetCall ==
  /\ rs' = resamplerReset(rs)
  /\ rsOp' = "reset"
  /\ rsStream' = <<>>
  /\ rsProduced' = 0
  /\ rsRemoved' = 0
  /\ rsCastUB' = FALSE
  /\ UNCHANGED <<rsIn, rsOutSize, rsOut>>
  /\ UNCHANGED <<vadVars, procVars, fftVars, stftVars, postVars, bridgeVars, threadVars>>

ResNext ==
  \/ \E n \in 0..MaxResInput, outputSize \in 1..MaxOutputSize,
         cast \in CastOutcomes :
       ProcessCall(nextInput(rs, Len(rsStream), n), outputSize, cast)
  \/ ResResetCall

SpecRes == ResInit /\ [][ResNext]_vars

(***************************************************************************)
(* The processor driven by arbitrary processFrame and reset calls, with an *)
(* arbitrary inference callback.                                           *)
(***************************************************************************)
\* Bound of the processor's runs: processFrame calls between two resets.
MaxFrames == 2

\* Sample i of a signal, in 1/1000: "quiet" is 0.004..0.006, below -40 dB
\* with a DC offset; "speech" is a ramp from 0.3; "loud" alternates in sign
\* and peaks near 1.5.
signalSample(kind, i) ==
  CASE kind = "quiet"  -> 4 + (i % 3)
    [] kind = "speech" -> 300 + i
    [] kind = "loud"   -> IF i % 2 = 0 THEN 1500 - i ELSE -(700 + i)

signal(kind, n) == [i \in 1..n |-> signalSample(kind, i)]

\* Input frames: empty, one sample short, exact and one sample long.
InputFrames ==
  {signal("quiet", 0),
   signal("quiet", DEFAULT_FRAME_SIZE - 1),
   signal("loud", DEFAULT_FRAME_SIZE),
   signal("speech", DEFAULT_FRAME_SIZE + 1)}

\* What the callback may return ...
CallbackResults ==
  {signal("loud", 0),
   signal("loud", DEFAULT_FRAME_SIZE - 1),
   signal("quiet", DEFAULT_FRAME_SIZE),
   signal("loud", DEFAULT_FRAME_SIZE + 1)}

\* ... and leave in the state buffer: it as it was, or rewritten.
CallbackStates(states) ==
  {states, [i \in DOMAIN states |-> 1]}

\* Wall-clock milliseconds of one callback invocation.
CallbackMs == {1, 2}

\* The processor after processFrame calls with `frames`, the callback
\* rewriting the state buffer and taking 1 ms each time it is invoked.
RECURSIVE afterFrames(_, _)
afterFrames(p, frames) ==
  IF frames = <<>> THEN p
  ELSE LET g == processFrameGate(p, Head(frames)) IN
       IF g.speech
       THEN afterFrames(recordInference(g.pp, [i \in DOMAIN p.states_ |-> 1], 1),
                        Tail(frames))
       ELSE afterFrames(g.pp, Tail(frames))

\* Where a run starts: at a new processor, or in a stream, one speech frame
\* and then quiet frames up to MaxFrames before the 300 ms hang time runs
\* out.
ProcHistories ==
  {<<>>,
   <<signal("speech", DEFAULT_FRAME_SIZE)>> \o
     [k \in 1..(hangFrames(300, DEFAULT_SAMPLE_RATE) - MaxFrames) |->
        signal("quiet", DEFAULT_FRAME_SIZE)]}

ProcInit ==
  /\ \E history \in ProcHistories :
       pp = afterFrames(PoiseProcessor(-40, -60), history)
  /\ pc = "idle"
  /\ ppIn = <<>>
  /\ ppFrame = <<>>
  /\ ppSpeech = FALSE
  /\ ppCbFrame = <<>>
  /\ ppCbResult = <<>>
  /\ ppShaped = <<>>
  /\ ppOut = <<>>
  /\ ppCalls = 0
  /\ ppSpeechCalls = 0
  /\ cbCalls = 0
  /\ ppResetInHold = FALSE
  /\ VadIdle
  /\ ResIdle
  /\ FftIdle
  /\ StftIdle
  /\ PostIdle
  /\ BridgeIdle
  /\ ThreadsIdle

\* processFrame(inputFrame, inferenceCallback) is called and runs up to
\* the VAD gate: it returns there (silence) or goes on to the callback.
\* The observations of the callback start empty for the new call.
ProcessFrameGate(inputFrame) ==
  /\ pc = "idle"
  /\ ppCalls < MaxFrames
  /\ LET g == processFrameGate(pp, inputFrame) IN
       /\ pp' = g.pp
       /\ ppFrame' = g.frame
       /\ ppSpeech' = g.speech
       /\ ppSpeechCalls' = IF g.speech THEN ppSpeechCalls + 1 ELSE ppSpeechCalls
       /\ pc' = IF g.speech THEN "inference" ELSE "idle"
       /\ ppOut' = IF g.speech THEN <<>> ELSE g.out
  /\ ppIn' = inputFrame
  /\ ppCalls' = ppCalls + 1
  /\ ppCbFrame' = <<>>
  /\ ppCbResult' = <<>>
  /\ ppShaped' = <<>>
  /\ ppResetInHold' = FALSE
  /\ UNCHANGED cbCalls
  /\ UNCHANGED <<vadVars, resVars, fftVars, stftVars, postVars, bridgeVars, threadVars>>

\* The callback is invoked with (frame, states_, attenLimDb_), rewrites the
\* state buffer, returns `enhanced` after `ms` milliseconds, and
\* processFrame runs to its return.
ProcessFrameInference(enhanced) ==
  /\ pc = "inference"
  /\ LET r == finishFrame(pp, ppFrame, enhanced) IN
       /\ ppShaped' = r.shaped
       /\ ppOut' = r.out
  /\ \E states \in CallbackStates(pp.states_), ms \in CallbackMs :
       pp' = recordInference(pp, states, ms)
  /\ pc' = "idle"
  /\ ppCbFrame' = ppFrame
  /\ ppCbResult' = enhanced
  /\ cbCalls' = cbCalls + 1
  /\ UNCHANGED <<ppIn, ppFrame, ppSpeech, ppCalls, ppSpeechCalls, ppResetInHold>>
  /\ UNCHANGED <<vadVars, resVars, fftVars, stftVars, postVars, bridgeVars, threadVars>>

\* reset() between two processFrame calls; the observations start over.
ProcResetCall ==
  /\ pc = "idle"
  /\ ppCalls > 0
  /\ pp' = processorReset(pp)
  /\ ppIn' = <<>>
  /\ ppFrame' = <<>>
  /\ ppSpeech' = FALSE
  /\ ppCbFrame' = <<>>
  /\ ppCbResult' = <<>>
  /\ ppShaped' = <<>>
  /\ ppOut' = <<>>
  /\ ppCalls' = 0
  /\ ppSpeechCalls' = 0
  /\ cbCalls' = 0
  /\ ppResetInHold' = (pp.vad_.framesSinceActive_ < pp.vad_.hangFrames_)
  /\ UNCHANGED pc
  /\ UNCHANGED <<vadVars, resVars, fftVars, stftVars, postVars, bridgeVars, threadVars>>

ProcNext ==
  \/ \E inputFrame \in InputFrames : ProcessFrameGate(inputFrame)
  \/ \E enhanced \in CallbackResults : ProcessFrameInference(enhanced)
  \/ ProcResetCall

SpecProc == ProcInit /\ [][ProcNext]_vars

(***************************************************************************)
(* The transform alone, on impulses and on complex ramps.                  *)
(***************************************************************************)
\* Bounds of the transform's runs: calls on one array, and the number of
\* impulse positions tried.
MaxFftOps == 2

MaxImpulses == 16

\* Positions spread over the array, its two ends among them.
impulsePosition(k) == (k * 73) % FFT_SIZE

unitImpulse(pos) ==
  array([j \in 1..FFT_SIZE |-> IF j = pos + 1 THEN <<1, 0>> ELSE <<0, 0>>])

complexRamp(a) ==
  array([j \in 1..FFT_SIZE |-> <<(a * j + 3) % 1000, (j * j + a) % 1000>>])

FftInputs ==
  {unitImpulse(impulsePosition(k)) : k \in 0..(MaxImpulses - 1)}
    \cup {complexRamp(1), complexRamp(7)}

FftInit ==
  /\ fftInput \in FftInputs
  /\ fftData = fftInput
  /\ fftOps = <<>>
  /\ VadIdle
  /\ ResIdle
  /\ ProcIdle
  /\ StftIdle
  /\ PostIdle
  /\ BridgeIdle
  /\ ThreadsIdle

\* fft(data, FFT_SIZE, false)
FftForward ==
  /\ Len(fftOps) < MaxFftOps
  /\ fftData' = fft(fftData, FFT_SIZE, FALSE)
  /\ fftOps' = Append(fftOps, "forward")
  /\ UNCHANGED fftInput
  /\ UNCHANGED <<vadVars, resVars, procVars, stftVars, postVars, bridgeVars, threadVars>>

\* fft(data, FFT_SIZE, true)
FftInverse ==
  /\ Len(fftOps) < MaxFftOps
  /\ fftData' = fft(fftData, FFT_SIZE, TRUE)
  /\ fftOps' = Append(fftOps, "inverse")
  /\ UNCHANGED fftInput
  /\ UNCHANGED <<vadVars, resVars, procVars, stftVars, postVars, bridgeVars, threadVars>>

FftNext == FftForward \/ FftInverse

SpecFft == FftInit /\ [][FftNext]_vars

(***************************************************************************)
(* The STFT processor driven by arbitrary computeSTFT, reconstructAudio    *)
(* and reset calls.                                                        *)
(***************************************************************************)
\* Chunks of HOP_SIZE samples: silence, a ramp, and a signal of alternating
\* sign.
StftChunks ==
  {zeros(HOP_SIZE),
   array([j \in 1..HOP_SIZE |-> 10 + j]),
   array([j \in 1..HOP_SIZE |->
     IF j % 2 = 0 THEN 3 * j ELSE (-(5 * j)) % FieldPrime])}

\* The spectra handed to reconstructAudio: the last computeSTFT result as it
\* is, or an all-zero spectrum (everything suppressed).
StftSpectra == {<<stReal, stImag>>, <<zeros(NUM_BINS), zeros(NUM_BINS)>>}

StftInit ==
  /\ stft = STFTProcessor
  /\ stOp = "init"
  /\ stChunk = <<>>
  /\ stPrevChunk = <<>>
  /\ stReal = zeros(NUM_BINS)
  /\ stImag = zeros(NUM_BINS)
  /\ stRealIn = <<>>
  /\ stImagIn = <<>>
  /\ stOut = <<>>
  /\ stComputes = 0
  /\ stPiped = TRUE
  /\ twin = STFTProcessor
  /\ twinOut = <<>>
  /\ stAfterReset = FALSE
  /\ VadIdle
  /\ ResIdle
  /\ ProcIdle
  /\ FftIdle
  /\ PostIdle
  /\ BridgeIdle
  /\ ThreadsIdle

ComputeSTFT(audioChunk) ==
  /\ \E r \in {computeSTFT(stft, audioChunk)} :
       /\ stft' = r.st
       /\ stReal' = r.realOut
       /\ stImag' = r.imagOut
       /\ \E t \in {IF twin = stft THEN r ELSE computeSTFT(twin, audioChunk)} :
            /\ twin' = t.st
            /\ twinOut' = <<t.realOut, t.imagOut>>
  /\ stOp' = "computeSTFT"
  /\ stAfterReset' = (stOp = "reset")
  /\ stChunk' = audioChunk
  /\ stPrevChunk' = stChunk
  /\ stComputes' = Min(stComputes + 1, 2)
  /\ stPiped' = (stPiped /\ stOp # "computeSTFT")
  /\ stRealIn' = <<>>
  /\ stImagIn' = <<>>
  /\ stOut' = <<>>
  /\ UNCHANGED <<vadVars, resVars, procVars, fftVars, postVars, bridgeVars, threadVars>>

ReconstructAudio(realIn, imagIn) ==
  /\ \E r \in {reconstructAudio(stft, realIn, imagIn)} :
       /\ stft' = r.st
       /\ stOut' = r.audioOut
       /\ \E t \in {IF twin = stft THEN r
                     ELSE reconstructAudio(twin, realIn, imagIn)} :
            /\ twin' = t.st
            /\ twinOut' = t.audioOut
  /\ stOp' = "reconstructAudio"
  /\ stAfterReset' = (stOp = "reset")
  /\ stRealIn' = realIn
  /\ stImagIn' = imagIn
  /\ stPiped' = (stPiped /\ stOp = "computeSTFT"
                         /\ realIn = stReal /\ imagIn = stImag)
  /\ UNCHANGED <<stChunk, stPrevChunk, stReal, stImag, stComputes>>
  /\ UNCHANGED <<vadVars, resVars, procVars, fftVars, postVars, bridgeVars, threadVars>>

\* reset(); the twin is constructed anew and the observations start over.
StftResetCall ==
  /\ stOp # "init"
  /\ stft' = stftReset(stft)
  /\ twin' = STFTProcessor
  /\ stOp' = "reset"
  /\ stAfterReset' = FALSE
  /\ stChunk' = <<>>
  /\ stPrevChunk' = <<>>
  /\ stRealIn' = <<>>
  /\ stImagIn' = <<>>
  /\ stOut' = <<>>
  /\ twinOut' = <<>>
  /\ stComputes' = 0
  /\ stPiped' = TRUE
  /\ UNCHANGED <<stReal, stImag>>
  /\ UNCHANGED <<vadVars, resVars, procVars, fftVars, postVars, bridgeVars, threadVars>>

StftNext ==
  \/ \E audioChunk \in StftChunks : ComputeSTFT(audioChunk)
  \/ \E spectrum \in StftSpectra : ReconstructAudio(spectrum[1], spectrum[2])
  \/ StftResetCall

SpecStft == StftInit /\ [][StftNext]_vars

(***************************************************************************)
(* Post-processing applied to one frame, by the processor                  *)
(* (postprocessAudio) or by the bridge (the body of nativePostProcess up   *)
(* to the output resampler).                                                *)
(***************************************************************************)
MaxPostLen == 3

PostSamples == {-1500, -980, 0, 500, 981, 1500}

\* Short frames of every shape over PostSamples, and whole frames.
PostFrames ==
  SeqsUpTo(PostSamples, MaxPostLen)
    \cup {signal(kind, DEFAULT_FRAME_SIZE) : kind \in {"quiet", "speech", "loud"}}

PostInit ==
  /\ postIn \in PostFrames
  /\ postVia = "none"
  /\ postLimited = <<>>
  /\ postOut = <<>>
  /\ VadIdle
  /\ ResIdle
  /\ ProcIdle
  /\ FftIdle
  /\ StftIdle
  /\ BridgeIdle
  /\ ThreadsIdle

PostprocessAudio ==
  /\ postVia = "none"
  /\ postVia' = "postprocessAudio"
  /\ postLimited' = IF postIn = <<>> THEN postIn ELSE array(softLimit(postIn))
  /\ postOut' = array(postprocessAudio(postIn))
  /\ UNCHANGED postIn
  /\ UNCHANGED <<vadVars, resVars, procVars, fftVars, stftVars, bridgeVars, threadVars>>

NativePostProcessBody ==
  /\ postVia = "none"
  /\ postVia' = "nativePostProcess"
  /\ postLimited' = array(bridgeSoftLimit(postIn))
  /\ postOut' = array(bridgeClipRemoveDC(bridgeSoftLimit(postIn)))
  /\ UNCHANGED postIn
  /\ UNCHANGED <<vadVars, resVars, procVars, fftVars, stftVars, bridgeVars, threadVars>>

PostNext ==
  \/ PostprocessAudio
  \/ NativePostProcessBody

SpecPost == PostInit /\ [][PostNext]_vars

(***************************************************************************)
(* The bridge driven by arbitrary calls of its entry points, with handles  *)
(* that were returned by an init call and handles that never were.  Each    *)
(* entry point holds its registry's mutex from its first statement to its   *)
(* return and is one step.  Arrays given to the processor entry points are  *)
(* in units of 1/1000, those given to the STFT entry points are in the      *)
(* field of the STFT model.  The host's class lookup in nativeGetStats      *)
(* succeeds.                                                                *)
(***************************************************************************)
MaxHandles == 1

MaxBridgeCalls == 3

\* Handles the caller passes: every one an init call can return, and one
\* more.
BridgeHandles == 1..(MaxHandles + 1)

BridgeFrames ==
  {signal("quiet", DEFAULT_FRAME_SIZE), signal("loud", DEFAULT_FRAME_SIZE)}

\* <<inputSr, targetSr>> of nativeSetupInputResampler and
\* <<targetSr, outputSr>> of nativeSetupOutputResampler, a common unit of Hz
\* divided out.
InputRates == {<<1, 1>>, <<2, 1>>}

OutputRates == {<<1, 1>>, <<1, 2>>}

\* The conversion of availableOutputSamples is out of range only on an
\* empty accumulator.
BridgeCasts(registry, handle, audio) ==
  IF /\ handle \in DOMAIN registry
     /\ Len(registry[handle].accumulator_) + Len(audio) = 0
  THEN CastOutcomes
  ELSE {INT_MAX}

\* The zero spectrum, or the array the last nativeComputeSTFT returned.
BridgeSpectra ==
  {zeros(2 * NUM_BINS)}
    \cup (IF brOp = "nativeComputeSTFT" /\ ~brNull THEN {brRet} ELSE {})

BridgeInit ==
  /\ BridgeIdle
  /\ VadIdle
  /\ ResIdle
  /\ ProcIdle
  /\ FftIdle
  /\ StftIdle
  /\ PostIdle
  /\ ThreadsIdle

\* What every entry point leaves behind for the observer.
Called(op, handle, arg) ==
  /\ brCalls < MaxBridgeCalls
  /\ brCalls' = brCalls + 1
  /\ brOp' = op
  /\ brHandle' = handle
  /\ brArg' = arg
  /\ UNCHANGED <<vadVars, resVars, procVars, fftVars, stftVars, postVars, threadVars>>

NativeInit(vadThresholdDb, attenLimDb) ==
  /\ nextHandle <= MaxHandles
  /\ Called("nativeInit", nextHandle, <<>>)
  /\ brShadow' =
       assign(brShadow, nextHandle,
              PoiseProcessor(vadThresholdDb, attenLimDb).vad_)
  /\ nextHandle' = nextHandle + 1
  /\ processors' =
       assign(processors, nextHandle, PoiseProcessor(vadThresholdDb, attenLimDb))
  /\ brNull' = FALSE
  /\ brRet' = <<nextHandle>>
  /\ UNCHANGED <<inputResamplers, outputResamplers, stftProcessors, nextStftHandle>>

NativeSetupInputResampler(handle, inputSr, targetSr) ==
  /\ Called("nativeSetupInputResampler", handle, <<inputSr, targetSr>>)
  /\ UNCHANGED brShadow
  /\ inputResamplers' =
       IF inputSr # targetSr
       THEN assign(inputResamplers, handle, StreamingResampler(inputSr, targetSr))
       ELSE inputResamplers
  /\ brNull' = FALSE
  /\ brRet' = <<>>
  /\ UNCHANGED <<processors, outputResamplers, nextHandle, stftProcessors, nextStftHandle>>

NativeSetupOutputResampler(handle, targetSr, outputSr) ==
  /\ Called("nativeSetupOutputResampler", handle, <<targetSr, outputSr>>)
  /\ UNCHANGED brShadow
  /\ outputResamplers' =
       IF targetSr # outputSr
       THEN assign(outputResamplers, handle, StreamingResampler(targetSr, outputSr))
       ELSE outputResamplers
  /\ brNull' = FALSE
  /\ brRet' = <<>>
  /\ UNCHANGED <<processors, inputResamplers, nextHandle, stftProcessors, nextStftHandle>>

NativeProcessPreInference(handle, audioData, cast) ==
  /\ Called("nativeProcessPreInference", handle, audioData)
  /\ UNCHANGED brShadow
  /\ IF handle \notin DOMAIN processors
     THEN /\ brNull' = TRUE
          /\ brRet' = <<>>
          /\ UNCHANGED inputResamplers
     ELSE IF handle \in DOMAIN inputResamplers
     THEN \E r \in {process(inputResamplers[handle], audioData, 480, cast)} :
            /\ inputResamplers' = assign(inputResamplers, handle, r.rs)
            /\ brNull' = (r.out = <<>>)
            /\ brRet' = IF r.out = <<>> THEN <<>> ELSE array(resizeTo480(r.out))
     ELSE /\ brNull' = FALSE
          /\ brRet' = array(resizeTo480(audioData))
          /\ UNCHANGED inputResamplers
  /\ UNCHANGED <<processors, outputResamplers, nextHandle, stftProcessors, nextStftHandle>>

NativeCheckVAD(handle, audioData) ==
  /\ Called("nativeCheckVAD", handle, audioData)
  /\ brShadow' =
       IF handle \in DOMAIN brShadow
       THEN assign(brShadow, handle, isSpeech(brShadow[handle], audioData).vad)
       ELSE brShadow
  /\ brNull' = FALSE
  /\ brRet' = IF handle \notin DOMAIN processors
              THEN <<TRUE>>
              ELSE <<bridgeCheckVAD(processors[handle], audioData)>>
  /\ UNCHANGED registries

NativePostProcess(handle, audioData, cast) ==
  /\ Called("nativePostProcess", handle, audioData)
  /\ UNCHANGED brShadow
  /\ brNull' = FALSE
  /\ IF handle \notin DOMAIN processors
     THEN /\ brRet' = audioData
          /\ UNCHANGED outputResamplers
     ELSE \E audio \in {array(bridgeClipRemoveDC(bridgeSoftLimit(audioData)))} :
            IF handle \in DOMAIN outputResamplers
            THEN \E r \in {process(outputResamplers[handle], audio,
                                    bridgeOutputSize(outputResamplers[handle]),
                                    cast)} :
                   /\ outputResamplers' = assign(outputResamplers, handle, r.rs)
                   /\ brRet' = array(r.out)
            ELSE /\ brRet' = audio
                 /\ UNCHANGED outputResamplers
  /\ UNCHANGED <<processors, inputResamplers, nextHandle, stftProcessors, nextStftHandle>>

NativeGetStats(handle) ==
  /\ Called("nativeGetStats", handle, <<>>)
  /\ UNCHANGED brShadow
  /\ brNull' = (handle \notin DOMAIN processors)
  /\ brRet' = IF handle \notin DOMAIN processors
              THEN <<>>
              ELSE <<getStats(processors[handle])>>
  /\ UNCHANGED registries

NativeReset(handle) ==
  /\ Called("nativeReset", handle, <<>>)
  /\ brShadow' =
       IF handle \in DOMAIN brShadow
       THEN assign(brShadow, handle, vadReset(brShadow[handle]))
       ELSE brShadow
  /\ processors' =
       IF handle \in DOMAIN processors
       THEN assign(processors, handle, processorReset(processors[handle]))
       ELSE processors
  /\ inputResamplers' =
       IF handle \in DOMAIN inputResamplers
       THEN assign(inputResamplers, handle, resamplerReset(inputResamplers[handle]))
       ELSE inputResamplers
  /\ outputResamplers' =
       IF handle \in DOMAIN outputResamplers
       THEN assign(outputResamplers, handle, resamplerReset(outputResamplers[handle]))
       ELSE outputResamplers
  /\ brNull' = FALSE
  /\ brRet' = <<>>
  /\ UNCHANGED <<nextHandle, stftProcessors, nextStftHandle>>

NativeDestroy(handle) ==
  /\ Called("nativeDestroy", handle, <<>>)
  /\ brShadow' = erase(brShadow, handle)
  /\ processors' = erase(processors, handle)
  /\ inputResamplers' = erase(inputResamplers, handle)
  /\ outputResamplers' = erase(outputResamplers, handle)
  /\ brNull' = FALSE
  /\ brRet' = <<>>
  /\ UNCHANGED <<nextHandle, stftProcessors, nextStftHandle>>

NativeSTFTInit ==
  /\ nextStftHandle <= MaxHandles
  /\ Called("nativeSTFTInit", nextStftHandle, <<>>)
  /\ UNCHANGED brShadow
  /\ nextStftHandle' = nextStftHandle + 1
  /\ stftProcessors' = assign(stftProcessors, nextStftHandle, STFTProcessor)
  /\ brNull' = FALSE
  /\ brRet' = <<nextStftHandle>>
  /\ UNCHANGED <<processors, inputResamplers, outputResamplers, nextHandle>>

NativeComputeSTFT(handle, audioChunk) ==
  /\ Called("nativeComputeSTFT", handle, audioChunk)
  /\ UNCHANGED brShadow
  /\ IF handle \notin DOMAIN stftProcessors
     THEN /\ brNull' = TRUE
          /\ brRet' = <<>>
          /\ UNCHANGED stftProcessors
     ELSE \E r \in {computeSTFT(stftProcessors[handle], audioChunk)} :
            /\ stftProcessors' = assign(stftProcessors, handle, r.st)
            /\ brNull' = FALSE
            /\ brRet' = r.realOut \o r.imagOut
  /\ UNCHANGED <<processors, inputResamplers, outputResamplers, nextHandle, nextStftHandle>>

NativeReconstruct(handle, stftData) ==
  /\ Called("nativeReconstruct", handle, stftData)
  /\ UNCHANGED brShadow
  /\ IF handle \notin DOMAIN stftProcessors
     THEN /\ brNull' = TRUE
          /\ brRet' = <<>>
          /\ UNCHANGED stftProcessors
     ELSE \E r \in {reconstructAudio(stftProcessors[handle],
                                      SubSeq(stftData, 1, NUM_BINS),
                                      SubSeq(stftData, NUM_BINS + 1, 2 * NUM_BINS))} :
            /\ stftProcessors' = assign(stftProcessors, handle, r.st)
            /\ brNull' = FALSE
            /\ brRet' = r.audioOut
  /\ UNCHANGED <<processors, inputResamplers, outputResamplers, nextHandle, nextStftHandle>>

NativeSTFTReset(handle) ==
  /\ Called("nativeSTFTReset", handle, <<>>)
  /\ UNCHANGED brShadow
  /\ stftProcessors' =
       IF handle \in DOMAIN stftProcessors
       THEN assign(stftProcessors, handle, stftReset(stftProcessors[handle]))
       ELSE stftProcessors
  /\ brNull' = FALSE
  /\ brRet' = <<>>
  /\ UNCHANGED <<processors, inputResamplers, outputResamplers, nextHandle, nextStftHandle>>

NativeSTFTDestroy(handle) ==
  /\ Called("nativeSTFTDestroy", handle, <<>>)
  /\ UNCHANGED brShadow
  /\ stftProcessors' = erase(stftProcessors, handle)
  /\ brNull' = FALSE
  /\ brRet' = <<>>
  /\ UNCHANGED <<processors, inputResamplers, outputResamplers, nextHandle, nextStftHandle>>

BridgeNext ==
  \/ NativeInit(-40, -60)
  \/ \E handle \in BridgeHandles, rates \in InputRates :
       NativeSetupInputResampler(handle, rates[1], rates[2])
  \/ \E handle \in BridgeHandles, rates \in OutputRates :
       NativeSetupOutputResampler(handle, rates[1], rates[2])
  \/ \E handle \in BridgeHandles, audioData \in BridgeFrames :
       \E cast \in BridgeCasts(inputResamplers, handle, audioData) :
         NativeProcessPreInference(handle, audioData, cast)
  \/ \E handle \in BridgeHandles, audioData \in BridgeFrames :
       NativeCheckVAD(handle, audioData)
  \/ \E handle \in BridgeHandles, audioData \in BridgeFrames :
       \E cast \in BridgeCasts(outputResamplers, handle, audioData) :
         NativePostProcess(handle, audioData, cast)
  \/ \E handle \in BridgeHandles : NativeGetStats(handle)
  \/ \E handle \in BridgeHandles : NativeReset(handle)
  \/ \E handle \in BridgeHandles : NativeDestroy(handle)
  \/ NativeSTFTInit
  \/ \E handle \in BridgeHandles, audioChunk \in StftChunks :
       NativeComputeSTFT(handle, audioChunk)
  \/ \E handle \in BridgeHandles, stftData \in BridgeSpectra :
       NativeReconstruct(handle, stftData)
  \/ \E handle \in BridgeHandles : NativeSTFTReset(handle)
  \/ \E handle \in BridgeHandles : NativeSTFTDestroy(handle)

SpecBridge == BridgeInit /\ [][BridgeNext]_vars

(***************************************************************************)
(* Threads of the host calling the bridge concurrently.  An entry point    *)
(* is a sequence of steps: the call, the construction of the lock_guard     *)
(* (which waits for the mutex), the first statements on the registry (a     *)
(* find, an insertion or the erasures), the use of the session object that  *)
(* was found together with the later lookups, and the return, where the     *)
(* lock_guard is destroyed.  What a session object computes is left out:    *)
(* a registry maps a handle to the object's class, and a thread holds       *)
(* pointers <<registry, handle>> to the objects it has found.  A pointer is *)
(* stale once another thread has erased or replaced its object.             *)
(***************************************************************************)
MaxThreads == 2

MaxThreadCalls == 3

Threads == 1..MaxThreads

\* Handles the threads pass: those init calls return.  Such a handle is
\* invalid before the init call that returns it and after its destroy.
ThreadHandles == 1..MaxHandles

ProcessorOps ==
  {"nativeInit", "nativeSetupInputResampler", "nativeSetupOutputResampler",
   "nativeProcessPreInference", "nativeCheckVAD", "nativePostProcess",
   "nativeGetStats", "nativeReset", "nativeDestroy"}

StftOps ==
  {"nativeSTFTInit", "nativeComputeSTFT", "nativeReconstruct",
   "nativeSTFTReset", "nativeSTFTDestroy"}

\* Entry points that return at once when find(handle) fails.
FindOrReturnOps ==
  {"nativeProcessPreInference", "nativeCheckVAD", "nativePostProcess",
   "nativeGetStats", "nativeComputeSTFT", "nativeReconstruct"}

\* The registry an entry point looks its handle up in first.
sessionRegistry(op) ==
  IF op \in StftOps THEN "stftProcessors" ELSE "processors"

\* The resampler registries an entry point looks up after the processor.
laterRegistries(op) ==
  CASE op = "nativeProcessPreInference" -> {"inputResamplers"}
    [] op = "nativePostProcess"         -> {"outputResamplers"}
    [] op = "nativeReset"               -> {"inputResamplers", "outputResamplers"}
    [] OTHER                            -> {}

\* The keys of a registry by its name.
keysOf(name) ==
  CASE name = "processors"       -> DOMAIN processors
    [] name = "inputResamplers"  -> DOMAIN inputResamplers
    [] name = "outputResamplers" -> DOMAIN outputResamplers
    [] name = "stftProcessors"   -> DOMAIN stftProcessors

\* The mutex an entry point's lock_guard is constructed on: its owner.
mutexOf(op) == IF op \in StftOps THEN stftMutex ELSE processorMutex

\* Mutant of lockGuard (used by the check of C21): the constructor does not
\* wait for the owner to unlock.
lockGuardNoWait(owner) == TRUE

\* std::lock_guard<std::mutex> lock(m): the constructor returns once the
\* mutex has no owner.
lockGuard(owner) == owner = 0

idleThread ==
  [pc |-> "idle", op |-> "none", handle |-> 0, arg |-> <<>>, holds |-> {},
   stale |-> FALSE, result |-> "none"]

\* The threads after thread t has destroyed or replaced the objects behind
\* `pointers`: every other thread that holds one of them holds it stale.
afterFree(threads, t, pointers) ==
  [u \in DOMAIN threads |->
     IF u # t /\ threads[u].holds \cap pointers # {}
     THEN [threads[u] EXCEPT !.stale = TRUE]
     ELSE threads[u]]

ThreadsInit ==
  /\ th = [t \in Threads |-> idleThread]
  /\ processorMutex = 0
  /\ stftMutex = 0
  /\ thCalls = 0
  /\ BridgeIdle
  /\ VadIdle
  /\ ResIdle
  /\ ProcIdle
  /\ FftIdle
  /\ StftIdle
  /\ PostIdle

ThreadsUnchanged ==
  UNCHANGED <<vadVars, resVars, procVars, fftVars, stftVars, postVars, bridgeObs>>

\* Thread t enters an entry point.
Call(t, op, handle, arg) ==
  /\ th[t].pc = "idle"
  /\ thCalls < MaxThreadCalls
  /\ op = "nativeInit" => nextHandle <= MaxHandles
  /\ op = "nativeSTFTInit" => nextStftHandle <= MaxHandles
  /\ thCalls' = thCalls + 1
  /\ th' = [th EXCEPT ![t] = [idleThread EXCEPT !.pc = "waiting", !.op = op,
                                                !.handle = handle, !.arg = arg]]
  /\ UNCHANGED <<registries, processorMutex, stftMutex>>
  /\ ThreadsUnchanged

\* The lock_guard of the entry point is constructed.
Lock(t) ==
  /\ th[t].pc = "waiting"
  /\ lockGuard(mutexOf(th[t].op))
  /\ IF th[t].op \in StftOps
     THEN stftMutex' = t /\ UNCHANGED processorMutex
     ELSE processorMutex' = t /\ UNCHANGED stftMutex
  /\ th' = [th EXCEPT ![t].pc = "locked"]
  /\ UNCHANGED <<registries, thCalls>>
  /\ ThreadsUnchanged

\* nativeInit and nativeSTFTInit: handle = next++, registry[handle] = a new
\* object.
Insert(t) ==
  /\ th[t].pc = "locked"
  /\ th[t].op \in {"nativeInit", "nativeSTFTInit"}
  /\ IF th[t].op = "nativeInit"
     THEN /\ nextHandle' = nextHandle + 1
          /\ processors' = assign(processors, nextHandle, "PoiseProcessor")
          /\ th' = [afterFree(th, t, {<<"processors", nextHandle>>})
                      EXCEPT ![t].pc = "return", ![t].handle = nextHandle,
                             ![t].result = "handle"]
          /\ UNCHANGED <<inputResamplers, outputResamplers, stftProcessors,
                         nextStftHandle>>
     ELSE /\ nextStftHandle' = nextStftHandle + 1
          /\ stftProcessors' =
               assign(stftProcessors, nextStftHandle, "STFTProcessor")
          /\ th' = [afterFree(th, t, {<<"stftProcessors", nextStftHandle>>})
                      EXCEPT ![t].pc = "return", ![t].handle = nextStftHandle,
                             ![t].result = "handle"]
          /\ UNCHANGED <<processors, inputResamplers, outputResamplers,
                         nextHandle>>
  /\ UNCHANGED <<processorMutex, stftMutex, thCalls>>
  /\ ThreadsUnchanged

\* nativeSetupInputResampler and nativeSetupOutputResampler: when the two
\* rates differ, registry[handle] = a new resampler, which destroys the one
\* the handle had.
Setup(t) ==
  /\ th[t].pc = "locked"
  /\ th[t].op \in {"nativeSetupInputResampler", "nativeSetupOutputResampler"}
  /\ IF th[t].arg[1] = th[t].arg[2]
     THEN /\ th' = [th EXCEPT ![t].pc = "return", ![t].result = "void"]
          /\ UNCHANGED registries
     ELSE IF th[t].op = "nativeSetupInputResampler"
     THEN /\ inputResamplers' =
               assign(inputResamplers, th[t].handle, "StreamingResampler")
          /\ th' = [afterFree(th, t, {<<"inputResamplers", th[t].handle>>})
                      EXCEPT ![t].pc = "return", ![t].result = "void"]
          /\ UNCHANGED <<processors, outputResamplers, nextHandle,
                         stftProcessors, nextStftHandle>>
     ELSE /\ outputResamplers' =
               assign(outputResamplers, th[t].handle, "StreamingResampler")
          /\ th' = [afterFree(th, t, {<<"outputResamplers", th[t].handle>>})
                      EXCEPT ![t].pc = "return", ![t].result = "void"]
          /\ UNCHANGED <<processors, inputResamplers, nextHandle,
                         stftProcessors, nextStftHandle>>
  /\ UNCHANGED <<processorMutex, stftMutex, thCalls>>
  /\ ThreadsUnchanged

\* nativeDestroy and nativeSTFTDestroy: the erasures, which destroy the
\* objects.
Erase(t) ==
  /\ th[t].pc = "locked"
  /\ th[t].op \in {"nativeDestroy", "nativeSTFTDestroy"}
  /\ IF th[t].op = "nativeDestroy"
     THEN /\ processors' = erase(processors, th[t].handle)
          /\ inputResamplers' = erase(inputResamplers, th[t].handle)
          /\ outputResamplers' = erase(outputResamplers, th[t].handle)
          /\ th' = [afterFree(th, t, {<<"processors", th[t].handle>>,
                                      <<"inputResamplers", th[t].handle>>,
                                      <<"outputResamplers", th[t].handle>>})
                      EXCEPT ![t].pc = "return", ![t].result = "void"]
          /\ UNCHANGED <<nextHandle, stftProcessors, nextStftHandle>>
     ELSE /\ stftProcessors' = erase(stftProcessors, th[t].handle)
          /\ th' = [afterFree(th, t, {<<"stftProcessors", th[t].handle>>})
                      EXCEPT ![t].pc = "return", ![t].result = "void"]
          /\ UNCHANGED <<processors, inputResamplers, outputResamplers,
                         nextHandle, nextStftHandle>>
  /\ UNCHANGED <<processorMutex, stftMutex, thCalls>>
  /\ ThreadsUnchanged

\* auto it = registry.find(handle) of the other entry points: those of
\* FindOrReturnOps return when it is end(); the resets go on to their later
\* statements either way.
Find(t) ==
  /\ th[t].pc = "locked"
  /\ th[t].op \in FindOrReturnOps \cup {"nativeReset", "nativeSTFTReset"}
  /\ th' =
       IF th[t].handle \in keysOf(sessionRegistry(th[t].op))
       THEN [th EXCEPT ![t].pc = "found",
                       ![t].holds = {<<sessionRegistry(th[t].op), th[t].handle>>}]
       ELSE IF th[t].op \in FindOrReturnOps
       THEN [th EXCEPT ![t].pc = "return", ![t].result = "invalid"]
       ELSE [th EXCEPT ![t].pc = "found"]
  /\ UNCHANGED <<registries, processorMutex, stftMutex, thCalls>>
  /\ ThreadsUnchanged

\* The rest of the entry point: it->second is used, the resampler
\* registries of the entry point are looked up and what is found there is
\* used too.  The call has used an erased object when a pointer it held
\* was stale.
Use(t) ==
  /\ th[t].pc = "found"
  /\ th' = [th EXCEPT
              ![t].pc = "return",
              ![t].holds = @ \cup {<<name, th[t].handle>> :
                                    name \in {n \in laterRegistries(th[t].op) :
                                               th[t].handle \in keysOf(n)}},
              ![t].result = IF th[t].stale THEN "usedErased"
                            ELSE IF th[t].holds = {} THEN "void"
                            ELSE "ok"]
  /\ UNCHANGED <<registries, processorMutex, stftMutex, thCalls>>
  /\ ThreadsUnchanged

\* The entry point returns: the lock_guard is destroyed and unlocks the
\* mutex.
Return(t) ==
  /\ th[t].pc = "return"
  /\ IF th[t].op \in StftOps
     THEN stftMutex' = 0 /\ UNCHANGED processorMutex
     ELSE processorMutex' = 0 /\ UNCHANGED stftMutex
  /\ th' = [th EXCEPT ![t] = idleThread]
  /\ UNCHANGED <<registries, thCalls>>
  /\ ThreadsUnchanged

ThreadsNext ==
  \E t \in Threads :
    \/ Call(t, "nativeInit", 0, <<>>)
    \/ Call(t, "nativeSTFTInit", 0, <<>>)
    \/ \E handle \in ThreadHandles, rates \in InputRates :
         Call(t, "nativeSetupInputResampler", handle, rates)
    \/ \E handle \in ThreadHandles, rates \in OutputRates :
         Call(t, "nativeSetupOutputResampler", handle, rates)
    \/ \E handle \in ThreadHandles :
         \E op \in (ProcessorOps \cup StftOps)
                    \ {"nativeInit", "nativeSTFTInit",
                       "nativeSetupInputResampler",
                       "nativeSetupOutputResampler"} :
           Call(t, op, handle, <<>>)
    \/ Lock(t)
    \/ Insert(t)
    \/ Setup(t)
    \/ Erase(t)
    \/ Find(t)
    \/ Use(t)
    \/ Return(t)

SpecThreads == ThreadsInit /\ [][ThreadsNext]_vars

(***************************************************************************)
(* Claims about the detector, checked under SpecVAD.                       *)
(***************************************************************************)
\* C1: hang-time hold.  Once a frame's RMS exceeds the threshold, that call
\* and each of the next hangFrames-1 isSpeech calls return true whatever the
\* energy of their frames; hangFrames is 30 for 300 ms at 48 kHz.
C1_HangHold ==
  /\ hangFrames(300, 48000) = 30
  /\ (callsSinceActive >= 0 /\ callsSinceActive <= vad.hangFrames_ - 1)
       => vadRet = TRUE

\* C1 witness: the 29th call after an active frame, on an all-zero frame,
\* with the default 30 hang frames, was classified as speech.
C1_Witness ==
  /\ vad.hangFrames_ = 30
  /\ callsSinceActive = 29
  /\ vadSilent
  /\ vadRet = TRUE

\* C2 as stated: the hold lasts hangFrames below-threshold frames, the first
\* one classified as silence being the (hangFrames+1)-th after the last
\* active frame.
C2_HoldIsHangFrames ==
  /\ (callsSinceActive >= 1 /\ callsSinceActive <= vad.hangFrames_)
       => vadRet = TRUE
  /\ callsSinceActive = vad.hangFrames_ + 1 => vadRet = FALSE

\* C2 amended: the k-th below-threshold frame after the last active frame
\* (k >= 1) is classified as speech exactly when k < hangFrames: the hold
\* lasts hangFrames-1 such frames and the hangFrames-th is the first one
\* classified as silence (the first, when hangFrames is 0).
C2_HoldIsHangFramesMinusOne ==
  callsSinceActive >= 1 => (vadRet = TRUE <=> callsSinceActive < vad.hangFrames_)

\* C2 witness: with 30 hang frames the 30th below-threshold frame after an
\* active one is classified as silence.
C2_Witness ==
  /\ vad.hangFrames_ = 30
  /\ callsSinceActive = 30
  /\ vadRet = FALSE

\* A call is inside the hang-time hold when an above-threshold frame was
\* among the previous hangFrames-1 isSpeech calls, with no reset since.
InHold == callsSinceActive >= 0 /\ callsSinceActive + 1 < vad.hangFrames_

\* C3 as stated: at -40 dB every isSpeech call on an all-zero frame returns
\* false and increases bypassed by exactly one.
C3_SilenceAlwaysBypassed ==
  [][(vadOp' = "isSpeech" /\ vadSilent' /\ vad.thresholdDb_ = -40)
       => /\ vadRet' = FALSE
          /\ vad'.bypassedFrames_ = vad.bypassedFrames_ + 1]_vars

\* C3 amended: at -40 dB an isSpeech call on an all-zero frame made outside
\* the hang-time hold returns false and increases bypassed by exactly one;
\* made inside the hold it returns true and leaves bypassed unchanged.
C3_SilenceBypassedOutsideHold ==
  [][(vadOp' = "isSpeech" /\ vadSilent' /\ vad.thresholdDb_ = -40)
       => IF InHold
          THEN /\ vadRet' = TRUE
               /\ vad'.bypassedFrames_ = vad.bypassedFrames_
          ELSE /\ vadRet' = FALSE
               /\ vad'.bypassedFrames_ = vad.bypassedFrames_ + 1]_vars

\* C3 witness: an all-zero frame after the hold of an earlier active frame
\* ran out was bypassed, at -40 dB, following earlier bypassed frames.
C3_Witness ==
  /\ vad.thresholdDb_ = -40
  /\ vadOp = "isSpeech"
  /\ vadSilent
  /\ callsSinceActive >= vad.hangFrames_
  /\ vad.hangFrames_ >= 2
  /\ vadRet = FALSE
  /\ vad.bypassedFrames_ >= 2

(***************************************************************************)
(* Claims about the resampler, checked under SpecRes.                      *)
(***************************************************************************)
Resampling == rs.inputSampleRate_ # rs.outputSampleRate_

\* C4: with equal input and output rates every process call returns exactly
\* its input, whatever outputSize is asked for, and buffers nothing: the
\* accumulator stays empty and the phase stays 0.
C4_EqualRatesPassthrough ==
  ~Resampling =>
    /\ rs.accumulator_ = <<>>
    /\ rs.phase_ = 0
    /\ rsOp = "process" => rsOut = rsIn

\* C4 witness: a later call of an equal-rate resampler returned its
\* two-or-more-sample input although another outputSize was asked for.
C4_Witness ==
  /\ ~Resampling
  /\ rsOp = "process"
  /\ Len(rsIn) >= 2
  /\ rsOutSize # Len(rsIn)
  /\ Len(rsStream) > Len(rsIn)
  /\ rsOut = rsIn

\* floor((accumulatorLength - 1) * ratio), the number of derivable outputs.
derivable(size, r) ==
  ((size - 1) * r.outputSampleRate_) \div r.inputSampleRate_

\* C5: for unequal rates, a process call whose derivable output count,
\* floor((accumulatorLength-1) * ratio) after appending the input, is below
\* outputSize returns an empty vector, leaves the accumulator equal to the
\* old one followed by the input, and leaves the phase unchanged; this
\* includes an empty input on an empty accumulator.
C5_StarvedReturnsEmpty ==
  [][(/\ rsOp' = "process"
      /\ Resampling
      /\ derivable(Len(rs.accumulator_) + Len(rsIn'), rs) < rsOutSize')
       => /\ rsOut' = <<>>
          /\ rs'.accumulator_ = rs.accumulator_ \o rsIn'
          /\ rs'.phase_ = rs.phase_]_vars

\* The j-th sample (j = 0, 1, ...) of one pass over the whole stream: the
\* linear interpolation of the stream at source position j / ratio; -1
\* where that position is past the stream's last sample.
singlePassSample(r, stream, j) ==
  LET index == (j * r.inputSampleRate_) \div r.outputSampleRate_
      frac  == (j * r.inputSampleRate_) % r.outputSampleRate_
  IN IF frac = 0
     THEN IF index + 1 <= Len(stream) THEN stream[index + 1] ELSE -1
     ELSE IF index + 2 <= Len(stream)
          THEN (stream[index + 1] * (r.outputSampleRate_ - frac)
                  + stream[index + 2] * frac) \div r.outputSampleRate_
          ELSE -1

\* C6: chunked resampling equals single-pass resampling.  The j-th output
\* sample produced since construction or reset is the interpolation of the
\* whole input stream at position j / ratio, however the stream is cut into
\* calls.  (Stated for runs in which no call hit the out-of-range
\* conversion of an empty accumulator.)
C6_ChunkedEqualsSinglePass ==
  (rsOp = "process" /\ Resampling /\ ~rsCastUB) =>
    \A i \in 1..Len(rsOut) :
      rsOut[i] = singlePassSample(rs, rsStream, rsProduced - Len(rsOut) + i - 1)

\* C7: a successful process call producing n outputs removes exactly
\* floor(n / ratio) samples from the accumulator's front, keeps the rest in
\* order, and sets the phase to the fractional part of
\* old phase + n / ratio - floor(n / ratio).
C7_RemovesFloorAndSetsPhase ==
  [][(rsOp' = "process" /\ Resampling /\ rsOut' # <<>>)
       => LET n   == Len(rsOut')
              acc == rs.accumulator_ \o rsIn'
              k   == (n * rs.inputSampleRate_) \div rs.outputSampleRate_
          IN /\ k <= Len(acc)
             /\ rs'.accumulator_ = SubSeq(acc, k + 1, Len(acc))
             /\ rs'.phase_ =
                  (rs.phase_
                     + ((n * rs.inputSampleRate_) % rs.outputSampleRate_))
                    % rs.outputSampleRate_]_vars

\* C8: no drift.  After any run of successful calls,
\* (samples removed from the accumulator) + phase = (outputs produced) / ratio.
\* (Stated for runs in which no call hit the out-of-range conversion.)
C8_NoDrift ==
  (Resampling /\ ~rsCastUB) =>
    rsRemoved * rs.outputSampleRate_ + rs.phase_
      = rsProduced * rs.inputSampleRate_

(***************************************************************************)
(* Claims about the processor, checked under SpecProc.                     *)
(***************************************************************************)
\* A vector cut or zero-padded to 480 samples.
to480(audio) == [i \in 1..480 |-> IF i <= Len(audio) THEN audio[i] ELSE 0]

\* C9: processFrame returns exactly 480 samples for every input length
\* (including 0 and more than 480) and every callback result length; the
\* frame given to the VAD and to the callback consists of the first
\* min(len, 480) input samples followed by zeros, and a non-empty callback
\* result is truncated or zero-padded to 480 the same way.
C9_FramesAre480 ==
  ppCalls > 0 =>
    /\ ppFrame = to480(ppIn)
    /\ pc = "idle" => Len(ppOut) = 480
    /\ pc = "idle" /\ ppSpeech =>
         /\ ppCbFrame = to480(ppIn)
         /\ ppCbResult # <<>> => ppShaped = to480(ppCbResult)
         /\ Len(ppShaped) = 480

\* A call with an input one sample long whose callback returned a result
\* one sample short has returned.
C9_Witness ==
  /\ pc = "idle"
  /\ ppCalls > 0
  /\ ppSpeech
  /\ Len(ppIn) = 481
  /\ ppIn[481] # 0
  /\ Len(ppCbResult) = 479
  /\ Len(ppOut) = 480

\* C10: VAD gate: when the detector classifies the normalized frame as not
\* speech, processFrame returns that normalized frame unmodified (no
\* limiter, clamp or DC removal), does not invoke the inference callback,
\* and leaves the model state, the inference frame count and the
\* accumulated latency unchanged; the callback is invoked exactly once per
\* frame classified as speech and only after the VAD decision.
C10_VadGate ==
  [][/\ (pc = "idle" /\ ppCalls' = ppCalls + 1 /\ ~ppSpeech') =>
          /\ pc' = "idle"
          /\ ppOut' = to480(ppIn')
          /\ cbCalls' = cbCalls
          /\ pp'.states_ = pp.states_
          /\ pp'.frameCount_ = pp.frameCount_
          /\ pp'.totalProcessingTimeMs_ = pp.totalProcessingTimeMs_
     /\ (cbCalls' # cbCalls /\ ppCalls' # 0) =>
          /\ cbCalls' = cbCalls + 1
          /\ pc = "inference"
          /\ ppSpeech
          /\ ppCalls' = ppCalls
     /\ pc' = "idle" => cbCalls' = ppSpeechCalls'
     /\ pc' = "inference" => cbCalls' = ppSpeechCalls' - 1
    ]_vars

\* A frame with a DC offset has been bypassed by a processor whose model
\* state was rewritten by an earlier inference, right after a frame that
\* went through the callback.
C10_Witness ==
  /\ pc = "idle"
  /\ ppCalls > 1
  /\ ~ppSpeech
  /\ cbCalls = ppCalls - 1
  /\ ppIn # <<>>
  /\ ppOut = to480(ppIn)
  /\ ppOut # postprocessAudio(ppOut)
  /\ pp.frameCount_ > 0
  /\ pp.states_[1] # 0

\* C11: fallback: when the inference callback returns an empty result for
\* a speech frame, processFrame still succeeds and its output is the
\* pre-inference normalized frame passed through post-processing, while any
\* in-place change the callback made to the model state persists and the
\* frame is still counted in the statistics.
C11_EmptyResultFallsBack ==
  [][(pc = "inference" /\ pc' = "idle" /\ ppCbResult' = <<>>) =>
       /\ ppShaped' = to480(ppIn)
       /\ ppOut' = postprocessAudio(to480(ppIn))
       /\ Len(ppOut') = 480
       /\ pp'.states_ \in CallbackStates(pp.states_)
       /\ pp'.frameCount_ = pp.frameCount_ + 1
       /\ pp'.totalProcessingTimeMs_ - pp.totalProcessingTimeMs_ \in CallbackMs
       /\ cbCalls' = cbCalls + 1
    ]_vars

\* A loud speech frame whose callback rewrote the state buffer and returned
\* nothing has come back limited.
C11_Witness ==
  /\ pc = "idle"
  /\ ppCalls > 0
  /\ ppSpeech
  /\ cbCalls > 0
  /\ ppCbResult = <<>>
  /\ ppOut = postprocessAudio(ppFrame)
  /\ ppOut # ppFrame
  /\ ppFrame[1] # 0
  /\ pp.states_[1] = 1
  /\ pp.frameCount_ = 1

\* C12: PoiseProcessor::reset from any reachable state (including in the
\* middle of a hang-time hold) yields a state equivalent to a freshly
\* constructed processor with the same configuration: the 45304-element
\* model state is all zeros, getStats reports zero frameCount, latency and
\* VAD total/active/bypassed, and the next below-threshold frame is
\* classified as silence.
C12_ResetIsFresh ==
  [][(pc = "idle" /\ ppCalls > 0 /\ ppCalls' = 0) =>
       /\ pp' = PoiseProcessor(pp.vadThresholdDb_, pp.attenLimDb_)
       /\ pp'.states_ = [i \in 1..45304 |-> 0]
       /\ LET stats == getStats(pp') IN
            /\ stats.frameCount = 0
            /\ stats.avgTimeMs = 0
            /\ stats.rtf = 0
            /\ stats.vadTotal = 0
            /\ stats.vadActive = 0
            /\ stats.vadBypassed = 0
       /\ \A frame \in InputFrames :
            ~rmsAbove(to480(frame), pp'.vad_.thresholdLinear_) =>
              ~processFrameGate(pp', frame).speech
    ]_vars

\* reset() has just been called inside a hang hold, on a processor that had
\* run inferences.
C12_Witness ==
  /\ ppResetInHold
  /\ ppCalls = 0
  /\ pp.frameCount_ = 0
  /\ pp.vad_.totalFrames_ = 0
  /\ pp.states_[1] = 0

(***************************************************************************)
(* Claims about the transform, checked under SpecFft.                      *)
(***************************************************************************)
\* The squared magnitude of a complex number.
norm(c) == (c[1] * c[1] + c[2] * c[2]) % FieldPrime

isUnitImpulse(data) ==
  \E pos \in 1..FFT_SIZE :
    \A j \in 1..FFT_SIZE : data[j] = IF j = pos THEN <<1, 0>> ELSE <<0, 0>>

\* C17: FFT correctness: the forward radix-2 transform of a unit impulse of
\* length FFT_SIZE has the same magnitude in every one of the NUM_BINS
\* returned bins, and the inverse transform divides by N exactly once so
\* that inverse(forward(x)) = x.
C17_FftCorrect ==
  /\ (fftOps = <<"forward">> /\ isUnitImpulse(fftInput)) =>
       \A j \in 1..NUM_BINS :
         /\ norm(fftData[j]) = norm(fftData[1])
         /\ norm(fftData[j]) = 1
  /\ fftOps = <<"forward", "inverse">> => fftData = fftInput

\* A unit impulse away from the array's start has gone through the forward
\* and the inverse transform.
C17_Witness ==
  /\ fftOps = <<"forward", "inverse">>
  /\ fftInput[impulsePosition(1) + 1] = <<1, 0>>
  /\ isUnitImpulse(fftInput)
  /\ fftData = fftInput

(***************************************************************************)
(* Claims about the STFT processor, checked under SpecStft.                *)
(***************************************************************************)
\* C13: STFT/ISTFT round trip with one-hop delay: when each computeSTFT
\* result is passed unmodified to reconstructAudio on a freshly constructed
\* or reset STFTProcessor, output chunk k equals input chunk k-1 for every
\* k >= 2 (the first output chunk is all zero); in particular an all-zero
\* input stream yields all-zero output.
C13_RoundTripOneHopLate ==
  (stOp = "reconstructAudio" /\ stPiped) =>
    /\ stComputes >= 1
    /\ stComputes = 1 => stOut = [j \in 1..256 |-> 0]
    /\ stComputes >= 2 => stOut = stPrevChunk

\* The second or a later chunk of an unmodified stream has been
\* reconstructed, after a different chunk that was not silence.
C13_Witness ==
  /\ stOp = "reconstructAudio"
  /\ stPiped
  /\ stComputes = 2
  /\ stPrevChunk # zeros(HOP_SIZE)
  /\ stChunk # zeros(HOP_SIZE)
  /\ stChunk # stPrevChunk
  /\ stOut = stPrevChunk

\* C14: STFTProcessor::reset zeroes both the input sliding window and the
\* overlap-add accumulator, so after reset the results of any sequence of
\* computeSTFT and reconstructAudio calls are identical to those of a newly
\* constructed processor given the same arguments: nothing fed before the
\* reset influences any later output.
C14_ResetForgets ==
  /\ stOp = "reset" =>
       /\ stft.stftBuffer_ = [j \in 1..FFT_SIZE |-> 0]
       /\ stft.overlapBuffer_ = [j \in 1..FFT_SIZE |-> 0]
  /\ stOp = "computeSTFT" => twinOut = <<stReal, stImag>>
  /\ stOp = "reconstructAudio" => twinOut = stOut
  /\ stft.stftBuffer_ = twin.stftBuffer_
  /\ stft.overlapBuffer_ = twin.overlapBuffer_
  /\ stft.window_ = twin.window_

\* The first call after a reset was a reconstructAudio of a spectrum that is
\* not silence, and it wrote out what the new processor wrote.
C14_Witness ==
  /\ stAfterReset
  /\ stOp = "reconstructAudio"
  /\ stRealIn # zeros(NUM_BINS)
  /\ stOut # zeros(HOP_SIZE)
  /\ twinOut = stOut

\* C19: sliding input window: after every computeSTFT call the
\* FFT_SIZE-sample input window equals the previous call's chunk followed by
\* the current chunk (all zeros in place of the previous chunk on the first
\* call after construction or reset), so it always holds the most recent
\* FFT_SIZE samples in chronological order.
C19_SlidingWindow ==
  /\ stComputes = 0 => stft.stftBuffer_ = [j \in 1..FFT_SIZE |-> 0]
  /\ stComputes = 1 => stft.stftBuffer_ = [j \in 1..HOP_SIZE |-> 0] \o stChunk
  /\ stComputes = 2 => stft.stftBuffer_ = stPrevChunk \o stChunk
  /\ Len(stft.stftBuffer_) = FFT_SIZE

\* Two different chunks, neither of them silence, have been fed in a row.
C19_Witness ==
  /\ stOp = "computeSTFT"
  /\ stComputes = 2
  /\ stPrevChunk # zeros(HOP_SIZE)
  /\ stChunk # zeros(HOP_SIZE)
  /\ stChunk # stPrevChunk
  /\ SubSeq(stft.stftBuffer_, HOP_SIZE + 1, FFT_SIZE) = stChunk

\* C20: overlap-add accumulator: each reconstructAudio call adds the
\* windowed inverse transform to the accumulator, emits exactly the first
\* HOP_SIZE sums, and leaves the accumulator equal to the last
\* FFT_SIZE-HOP_SIZE sums followed by HOP_SIZE zeros; hence after every call
\* the tail HOP_SIZE entries are zero and every reconstructed sample is
\* emitted exactly once, not lost and not duplicated.  (The inverse
\* transform of the call is what it leaves in fftBuffer_.)
C20_OverlapAdd ==
  [][stOp' = "reconstructAudio" =>
       \E sums \in {array([j \in 1..FFT_SIZE |->
                       (stft.overlapBuffer_[j]
                          + stft'.fftBuffer_[j][1] * stft.window_[j])
                         % FieldPrime])} :
         /\ stOut' = SubSeq(sums, 1, HOP_SIZE)
         /\ stft'.overlapBuffer_ =
              SubSeq(sums, HOP_SIZE + 1, FFT_SIZE) \o [j \in 1..HOP_SIZE |-> 0]
         /\ \A j \in (FFT_SIZE - HOP_SIZE + 1)..FFT_SIZE :
              stft'.overlapBuffer_[j] = 0
    ]_vars

\* A reconstructAudio call has emitted sums that are not zero and has kept
\* sums that are not zero for the next call.
C20_Witness ==
  /\ stOp = "reconstructAudio"
  /\ stComputes = 2
  /\ stOut # zeros(HOP_SIZE)
  /\ SubSeq(stft.overlapBuffer_, 1, HOP_SIZE) # zeros(HOP_SIZE)
  /\ SubSeq(stft.overlapBuffer_, HOP_SIZE + 1, FFT_SIZE) = zeros(HOP_SIZE)

(***************************************************************************)
(* A further claim about the resampler, checked under SpecRes.             *)
(***************************************************************************)
\* C18: after any sequence of process and reset calls on a
\* StreamingResampler, the phase lies in [0, 1).  (phase_ is the numerator
\* of a fraction over the output rate.)
C18_PhaseInUnitInterval ==
  /\ 0 <= rs.phase_
  /\ rs.phase_ < rs.outputSampleRate_

\* A process call has left a phase that is not zero, after an earlier call
\* had done so too.
C18_Witness ==
  /\ rsOp = "process"
  /\ rsOut # <<>>
  /\ rs.phase_ > 0
  /\ rsProduced > Len(rsOut)
  /\ 2 * rs.phase_ >= rs.outputSampleRate_

(***************************************************************************)
(* Claims about post-processing, checked under SpecPost.                   *)
(***************************************************************************)
peakOf(audio) == maxAbsIn(audio, 1, Len(audio))

\* C16: when the peak absolute amplitude of a frame exceeds 0.98, the
\* limiter step of post-processing multiplies every sample by 0.98/peak, so
\* that the peak before clamping is 0.98; a frame whose peak is at most 0.98
\* leaves the limiter step unchanged.  (The product is compared up to one
\* unit of the sample grid.)  What post-processing returns is that frame
\* clamped and with its mean removed.
C16_SoftLimiter ==
  (postVia # "none" /\ postIn # <<>>) =>
    /\ Len(postLimited) = Len(postIn)
    /\ IF peakOf(postIn) > 980
       THEN /\ peakOf(postLimited) = 980
            /\ \A i \in 1..Len(postIn) :
                 Abs(postLimited[i] * peakOf(postIn) - postIn[i] * 980)
                   < peakOf(postIn)
       ELSE postLimited = postIn
    /\ LET clamped == [i \in 1..Len(postIn) |->
                        Max(-1000, Min(1000, postLimited[i]))]
           mean    == TruncDiv(sumIn(clamped, 1, Len(postIn)), Len(postIn))
       IN postOut = [i \in 1..Len(postIn) |-> clamped[i] - mean]

\* A whole frame with peak 1.498 has been through postprocessAudio, and
\* its quieter samples were scaled with it.
C16_Witness ==
  /\ postVia = "postprocessAudio"
  /\ Len(postIn) = DEFAULT_FRAME_SIZE
  /\ peakOf(postIn) = 1498
  /\ peakOf(postLimited) = 980
  /\ postLimited # postIn
  /\ \E i \in 1..Len(postIn) : Abs(postIn[i]) < 980 /\ postLimited[i] # postIn[i]

(***************************************************************************)
(* Claims about the bridge, checked under SpecBridge.                      *)
(***************************************************************************)
\* The entry point just called returns a value and was given a handle that
\* its registry does not hold: one never returned by an init call, or one
\* destroyed since.
InvalidHandleCall ==
  \/ /\ brOp' \in {"nativeProcessPreInference", "nativeCheckVAD",
                   "nativePostProcess", "nativeGetStats"}
     /\ brHandle' \notin DOMAIN processors
  \/ /\ brOp' \in {"nativeComputeSTFT", "nativeReconstruct"}
     /\ brHandle' \notin DOMAIN stftProcessors

\* C15: every session-handle operation that returns a value
\* (processPreInference, checkVAD, postProcess, getStats, computeSTFT,
\* reconstruct), called with a handle that was never created or has been
\* destroyed, reports "no result" (null) and changes no session state.
C15_InvalidHandleNoResult ==
  [][InvalidHandleCall => (brNull' /\ registries' = registries)]_vars

(***************************************************************************)
(* A further claim about the detector, checked under SpecVAD.              *)
(***************************************************************************)
\* getStats() of v is consistent: total = active + bypassed, and bypassRatio
\* is bypassed / total (to one unit of 1/1000), or 0 when total is 0.
statsConsistent(v) ==
  LET stats == vadGetStats(v) IN
  /\ stats.total = stats.active + stats.bypassed
  /\ IF stats.total = 0
     THEN stats.bypassRatio = 0
     ELSE /\ stats.bypassRatio * stats.total <= stats.bypassed * 1000
          /\ stats.bypassed * 1000 < (stats.bypassRatio + 1) * stats.total

\* C22: after any sequence of isSpeech and reset calls total = active +
\* bypassed and bypassRatio is bypassed/total, or 0 when total is 0; every
\* isSpeech call increases total by one and exactly one of active and
\* bypassed by one: active when it returns true (a frame held by the hang
\* time included), bypassed when it returns false.
C22_CountersConsistent ==
  /\ [](statsConsistent(vad))
  /\ [][vadOp' = "isSpeech" =>
         /\ vadGetStats(vad').total = vadGetStats(vad).total + 1
         /\ vadGetStats(vad').active
              = vadGetStats(vad).active + (IF vadRet' THEN 1 ELSE 0)
         /\ vadGetStats(vad').bypassed
              = vadGetStats(vad).bypassed + (IF vadRet' THEN 0 ELSE 1)]_vars

\* A frame below the threshold was held as speech by the hang time, after
\* frames that were bypassed, with a ratio that is neither 0 nor 1.
C22_Witness ==
  /\ vadOp = "isSpeech"
  /\ vadRet
  /\ callsSinceActive > 0
  /\ vad.bypassedFrames_ > 0
  /\ vadGetStats(vad).bypassRatio > 0
  /\ vadGetStats(vad).bypassRatio < 1000

(***************************************************************************)
(* A further claim about the processor, checked under SpecProc.            *)
(***************************************************************************)
\* C23: getStats().vadTotal is the number of processFrame calls since the
\* last reset, and getStats().frameCount equals getStats().vadActive, the
\* number of callback invocations since the last reset; bypassed frames are
\* not counted in frameCount.  Stated step by step: reset sets the three to
\* 0, a processFrame call adds one to vadTotal and, when the frame passes
\* the gate, one to vadActive, the callback's invocation adds one to
\* frameCount, and between calls frameCount = vadActive.
C23_StatsCountCalls ==
  /\ [](pc = "idle" => getStats(pp).frameCount = getStats(pp).vadActive)
  /\ [][
         /\ (ppCalls' = ppCalls + 1) =>
            /\ getStats(pp').vadTotal = getStats(pp).vadTotal + 1
            /\ getStats(pp').vadActive
                 = getStats(pp).vadActive + (IF ppSpeech' THEN 1 ELSE 0)
            /\ getStats(pp').frameCount = getStats(pp).frameCount
            /\ (~ppSpeech' => (pc' = "idle" /\ cbCalls' = cbCalls))
         /\ (cbCalls' = cbCalls + 1) =>
            /\ getStats(pp').frameCount = getStats(pp).frameCount + 1
            /\ getStats(pp').vadTotal = getStats(pp).vadTotal
            /\ getStats(pp').vadActive = getStats(pp).vadActive
         /\ (ppCalls > 0 /\ ppCalls' = 0) =>
            /\ getStats(pp').vadTotal = 0
            /\ getStats(pp').vadActive = 0
            /\ getStats(pp').frameCount = 0]_vars

\* Two processFrame calls since a reset, one enhanced by the callback and
\* one bypassed: vadTotal is 2 and frameCount is 1.
C23_Witness ==
  /\ pc = "idle"
  /\ ppCalls = 2
  /\ cbCalls = 1
  /\ getStats(pp).vadTotal = 2
  /\ getStats(pp).frameCount = 1
  /\ getStats(pp).vadActive = 1
  /\ getStats(pp).vadBypassed = 1

(***************************************************************************)
(* A further claim about post-processing, checked under SpecPost.          *)
(***************************************************************************)
\* C24: every sample of a frame returned by post-processing (by
\* postprocessAudio on the speech path of processFrame, and by the bridge's
\* postProcess before output resampling) lies within [-1, 1], for every
\* input frame, frames with a large DC offset included.
C24_OutputInRange ==
  postVia # "none" =>
    \A i \in 1..Len(postOut) : -1000 <= postOut[i] /\ postOut[i] <= 1000

(***************************************************************************)
(* A further claim about the resampler's interpolation, checked under      *)
(* SpecRes.                                                                *)
(***************************************************************************)
\* int srcIndex = static_cast<int>(srcPos) of output i (0-based).
srcIndexOf(r, i) == srcPosNum(r, i) \div srcPosDen(r)

\* C25: whenever process returns a non-empty output (unequal rates), every
\* output sample is interpolated between the accumulator entries srcIndex
\* and srcIndex + 1, which both exist; the clamp-to-last-sample branch and
\* the silence branch are never taken.
C25_TwoPointInterpolationOnly ==
  [][(rsOp' = "process" /\ Resampling /\ rsOut' # <<>>)
       => \A i \in 0..(Len(rsOut') - 1) :
            srcIndexOf(rs, i) + 1 < Len(rs.accumulator_) + Len(rsIn')]_vars

\* C26: after any sequence of init, setupInputResampler,
\* setupOutputResampler, reset and destroy calls a handle has an input or
\* output resampler registered only if it has a live processor; a handle
\* just returned by init has no resampler, and destroy(h) removes the
\* processor and both resamplers of h.
C26_ResamplersOnlyForLiveProcessors ==
  /\ []((DOMAIN inputResamplers \cup DOMAIN outputResamplers)
          \subseteq DOMAIN processors)
  /\ [][brOp' = "nativeInit" =>
          /\ brHandle' \in DOMAIN processors'
          /\ brHandle' \notin DOMAIN inputResamplers'
          /\ brHandle' \notin DOMAIN outputResamplers']_vars
  /\ [][brOp' = "nativeDestroy" =>
          /\ brHandle' \notin DOMAIN processors'
          /\ brHandle' \notin DOMAIN inputResamplers'
          /\ brHandle' \notin DOMAIN outputResamplers']_vars

\* C27: for any sequence of frames given to one session, the bridge's
\* checkVAD returns for each frame the decision that
\* VoiceActivityDetector::isSpeech of the session's processor would return
\* on the same sequence with the same threshold, the hang-time hold after a
\* frame above the threshold included.
C27_CheckVADIsIsSpeech ==
  [][(brOp' = "nativeCheckVAD" /\ brHandle' \in DOMAIN processors)
       => brRet' = <<isSpeech(brShadow[brHandle'], brArg').ret>>]_vars

(***************************************************************************)
(* A claim about the bridge's locking, checked under SpecThreads.          *)
(***************************************************************************)
\* Thread t is between the construction of its lock_guard and its return:
\* the part of an entry point in which the registries are read and written.
inEntryPoint(t) == th[t].pc \in {"locked", "found", "return"}

\* C21: every entry point reads and writes the processor and resampler
\* registries and the handle counter only while it holds processorMutex,
\* and the STFT registry and its counter only while it holds stftMutex; so
\* an operation on h that runs concurrently with destroy(h) either runs on
\* the live session or finds h invalid, and never uses a session object
\* after it was erased.
C21_RegistriesUnderMutex ==
  /\ [](\A t \in Threads :
          /\ inEntryPoint(t) => mutexOf(th[t].op) = t
          /\ ~th[t].stale
          /\ th[t].result # "usedErased"
          /\ \A pointer \in th[t].holds : pointer[2] \in keysOf(pointer[1]))
  /\ [][
         /\ <<processors, inputResamplers, outputResamplers, nextHandle>>
            # <<processors', inputResamplers', outputResamplers', nextHandle'>>
            => \E t \in Threads :
                 /\ processorMutex = t
                 /\ th[t].pc = "locked"
                 /\ th'[t].pc = "return"
         /\ <<stftProcessors, nextStftHandle>>
            # <<stftProcessors', nextStftHandle'>>
            => \E t \in Threads :
                 /\ stftMutex = t
                 /\ th[t].pc = "locked"
                 /\ th'[t].pc = "return"]_vars

\* One thread has found the session of a handle and is about to use it
\* while another has called nativeDestroy for the same handle and waits for
\* the mutex.
C21_Witness ==
  \E t \in Threads, u \in Threads :
    /\ th[t].pc = "found"
    /\ th[t].holds # {}
    /\ th[t].op \in ProcessorOps
    /\ th[u].pc = "waiting"
    /\ th[u].op = "nativeDestroy"
    /\ th[u].handle = th[t].handle

====
